---- MODULE Spec2Model ----
(***************************************************************************)
(* wow-gold.js: the gold-expression grammars (regular expressions and      *)
(* their parser callbacks), the dispatch of Gold.parse and                 *)
(* Gold.isGoldExpression over them, and the decimal arithmetic they use.   *)
(*                                                                         *)
(* A string is a sequence of one-character strings.  A Decimal is a record *)
(* [s, d, e]: sign s (1 or -1, kept for zero as decimal.js keeps it), the  *)
(* coefficient digits d (most significant first, no leading and no         *)
(* trailing zero, empty for zero) and the exponent e of the last digit, so *)
(* that the value is s * d * 10^e.  Digits are kept as sequences because   *)
(* the amounts exceed the range of machine integers.                       *)
(***************************************************************************)
EXTENDS Integers, Sequences, FiniteSets, TLC

VARIABLES expression, op, expressionType, doNotTrim, result, receiver, argument, calls,
          lastIndex

vars ==
    <<expression, op, expressionType, doNotTrim, result, receiver, argument, calls, lastIndex>>

(***************************************************************************)
(* Characters                                                              *)
(***************************************************************************)
Undefined == <<"undefined">>
Null == <<"null">>

DigitChars == {"0", "1", "2", "3", "4", "5", "6", "7", "8", "9"}

DigitVal(c) ==
    CASE c = "0" -> 0 [] c = "1" -> 1 [] c = "2" -> 2 [] c = "3" -> 3
      [] c = "4" -> 4 [] c = "5" -> 5 [] c = "6" -> 6 [] c = "7" -> 7
      [] c = "8" -> 8 [] c = "9" -> 9

\* String.prototype.trim strips white space of every kind at both ends.
WhiteSpace == {" ", "\t"}

ToLowerChar(c) ==
    CASE c = "G" -> "g" [] c = "K" -> "k" [] c = "M" -> "m" [] c = "B" -> "b"
      [] c = "S" -> "s" [] c = "C" -> "c" [] OTHER -> c

ToUpperChar(c) ==
    CASE c = "g" -> "G" [] c = "k" -> "K" [] c = "m" -> "M" [] c = "b" -> "B"
      [] c = "s" -> "S" [] c = "c" -> "C" [] OTHER -> c

RECURSIVE TrimStart(_)
TrimStart(str) ==
    IF str # <<>> /\ Head(str) \in WhiteSpace THEN TrimStart(Tail(str)) ELSE str

RECURSIVE TrimEnd(_)
TrimEnd(str) ==
    IF str # <<>> /\ str[Len(str)] \in WhiteSpace
    THEN TrimEnd(SubSeq(str, 1, Len(str) - 1))
    ELSE str

Trim(str) == TrimEnd(TrimStart(str))

\* str.replace(/[,_]/g, '')
IsNotSeparator(c) == c \notin {",", "_"}

StripSeparators(str) == SelectSeq(str, IsNotSeparator)

(***************************************************************************)
(* Decimal (decimal.js as configured by gold.ts)                           *)
(***************************************************************************)
Precision == 50

\* n zeros, none for n <= 0.
Zeros(n) == [i \in 1..(IF n > 0 THEN n ELSE 0) |-> 0]

\* The index of the first digit of d that is not zero, Len(d) + 1 if none is.
FirstNonZero(d) ==
    IF \A i \in 1..Len(d) : d[i] = 0 THEN Len(d) + 1
    ELSE CHOOSE i \in 1..Len(d) : d[i] # 0 /\ \A j \in 1..(i - 1) : d[j] = 0

\* The index of the last digit of d that is not zero, 0 if none is.
LastNonZero(d) ==
    IF \A i \in 1..Len(d) : d[i] = 0 THEN 0
    ELSE CHOOSE i \in 1..Len(d) : d[i] # 0 /\ \A j \in (i + 1)..Len(d) : d[j] = 0

\* The canonical record of s * d * 10^e: no leading and no trailing zeros.
MkDec(s, d, e) ==
    IF LastNonZero(d) = 0 THEN [s |-> s, d |-> <<>>, e |-> 0]
    ELSE [s |-> s, d |-> SubSeq(d, FirstNonZero(d), LastNonZero(d)), e |-> e + (Len(d) - LastNonZero(d))]

\* a + b + c on digit sequences of equal length n, c a carry of 0 or 1; the
\* result has n + 1 digits.  The carry into a place comes from the nearest
\* place to the right that makes one, every place between passing it on.
MagAddC(a, b, c) ==
    LET sum(i) == IF i = 0 THEN 0 ELSE a[i] + b[i]
        makes(j) == IF j = Len(a) + 1 THEN c = 1 ELSE sum(j) >= 10
        carry(i) == \E j \in (i + 1)..(Len(a) + 1) :
                        /\ makes(j)
                        /\ \A k \in (i + 1)..(j - 1) : sum(k) = 9
    IN [i \in 1..(Len(a) + 1) |-> (sum(i - 1) + (IF carry(i - 1) THEN 1 ELSE 0)) % 10]

\* a - b - br on digit sequences of equal length, a >= b + br, br a borrow of 0 or 1.
MagSubB(a, b, br) ==
    LET takes(j) == IF j = Len(a) + 1 THEN br = 1 ELSE a[j] < b[j]
        borrow(i) == \E j \in (i + 1)..(Len(a) + 1) :
                         /\ takes(j)
                         /\ \A k \in (i + 1)..(j - 1) : a[k] = b[k]
    IN [i \in 1..Len(a) |-> (a[i] - b[i] - (IF borrow(i) THEN 1 ELSE 0) + 10) % 10]

\* a > b on digit sequences of equal length: the first place they differ in
\* has the larger digit in a.
MagGreater(a, b) ==
    \E k \in 1..Len(a) : a[k] > b[k] /\ \A j \in 1..(k - 1) : a[j] = b[j]

\* finalise(x, precision, ROUND_HALF_UP): at most Precision significant digits.
Finalise(x) ==
    IF Len(x.d) <= Precision THEN x
    ELSE MkDec(x.s,
               MagAddC(SubSeq(x.d, 1, Precision), Zeros(Precision),
                       IF x.d[Precision + 1] >= 5 THEN 1 ELSE 0),
               x.e + (Len(x.d) - Precision))

\* The index of the decimal point of body, Len(body) + 1 if it has none.
DotAt(body) ==
    IF \E i \in 1..Len(body) : body[i] = "." THEN CHOOSE i \in 1..Len(body) : body[i] = "."
    ELSE Len(body) + 1

\* The Decimal of sign s and of the digits of body, its point at index dot.
DecFromDigits(s, body, dot) ==
    MkDec(s,
          [i \in 1..(Len(body) - (IF dot <= Len(body) THEN 1 ELSE 0)) |->
              DigitVal(body[IF i < dot THEN i ELSE i + 1])],
          IF dot <= Len(body) THEN -(Len(body) - dot) ELSE 0)

DecFromUnsigned(s, body) == DecFromDigits(s, body, DotAt(body))

\* new Decimal("[-]digits[.digits]"): the constructor does not round.
DecFromString(str) ==
    DecFromUnsigned(IF str # <<>> /\ Head(str) = "-" THEN -1 ELSE 1,
                    IF str # <<>> /\ Head(str) = "-" THEN Tail(str) ELSE str)

DecZero == [s |-> 1, d |-> <<>>, e |-> 0]

DecIsZero(x) == x.d = <<>>

DecNeg(x) == [x EXCEPT !.s = -x.s]

\* The coefficient of x at exponent e (e <= x.e), padded on the left to length n.
Aligned(x, e, n) == Zeros(n - (Len(x.d) + (x.e - e))) \o x.d \o Zeros(x.e - e)

\* The sum of the coefficients a of sign sx and b of sign sy, both at exponent e.
AddAligned(sx, sy, a, b, e) ==
    IF sx = sy THEN MkDec(sx, MagAddC(a, b, 0), e)
    ELSE IF a = b THEN DecZero
    ELSE IF MagGreater(a, b) THEN MkDec(sx, MagSubB(a, b, 0), e)
    ELSE MkDec(sy, MagSubB(b, a, 0), e)

\* The sum of x and y, neither being zero, with the coefficients at exponent e
\* and n digits wide.
AddAt(x, y, e, n) == AddAligned(x.s, y.s, Aligned(x, e, n), Aligned(y, e, n), e)

AddFrom(x, y, e) ==
    AddAt(x, y, e, IF Len(x.d) + x.e > Len(y.d) + y.e THEN Len(x.d) + (x.e - e) ELSE Len(y.d) + (y.e - e))

\* x + y before rounding; a zero that is the sum of two zeros is negative only
\* if both are.
ExactSum(x, y) ==
    IF DecIsZero(x) /\ DecIsZero(y) THEN [DecZero EXCEPT !.s = IF x.s = -1 /\ y.s = -1 THEN -1 ELSE 1]
    ELSE IF DecIsZero(y) THEN x
    ELSE IF DecIsZero(x) THEN y
    ELSE AddFrom(x, y, IF x.e < y.e THEN x.e ELSE y.e)

\* Decimal.prototype.add, rounded to Precision significant digits.
DecAdd(x, y) == Finalise(ExactSum(x, y))

\* a + b on digit sequences, b padded on the left to the length of a or a to
\* that of b.
MagAdd(a, b) ==
    MagAddC(Zeros(Len(b) - Len(a)) \o a, Zeros(Len(a) - Len(b)) \o b, 0)

\* a * k for a digit k.
RECURSIVE MagTimes(_, _)
MagTimes(a, k) == IF k = 0 THEN <<>> ELSE MagAdd(a, MagTimes(a, k - 1))

\* a * b, digit by digit of b.
RECURSIVE MagMulBy(_, _)
MagMulBy(a, b) ==
    IF b = <<>> THEN <<>>
    ELSE MagAdd(MagMulBy(a, SubSeq(b, 1, Len(b) - 1)) \o <<0>>, MagTimes(a, b[Len(b)]))

\* The longer operand times the shorter.
MagMul(a, b) ==
    MagMulBy(IF Len(b) <= Len(a) THEN a ELSE b, IF Len(b) <= Len(a) THEN b ELSE a)

\* Decimal.prototype.mul, rounded to Precision significant digits.
DecMul(x, y) ==
    IF DecIsZero(x) \/ DecIsZero(y) THEN [DecZero EXCEPT !.s = x.s * y.s]
    ELSE Finalise(MkDec(x.s * y.s, MagMul(x.d, y.d), x.e + y.e))

\* Decimal.prototype.toString for the integers the parsers interpolate.
DigitString(d) == [i \in 1..Len(d) |-> CHOOSE c \in DigitChars : DigitVal(c) = d[i]]

DecToString(x) ==
    IF DecIsZero(x) THEN <<"0">>
    ELSE (IF x.s = -1 THEN <<"-">> ELSE <<>>) \o DigitString(x.d \o Zeros(x.e))

\* The values that are no finite number.  decimal.js keeps them with d null
\* and e NaN, and NaN with s NaN; here they have no digits, an exponent that
\* no zero has, and NaN the sign 0.
DecNaN == [s |-> 0, d |-> <<>>, e |-> 1]

DecInfinity(s) == [s |-> s, d |-> <<>>, e |-> 1]

\* Decimal.prototype.isNaN
DecIsNaN(x) == x.s = 0

\* Decimal.prototype.isFinite
DecIsFinite(x) == x.d # <<>> \/ x.e = 0

\* x < 0 for a finite x: a negative zero is not below zero.
DecIsBelowZero(x) == x.s = -1 /\ ~ DecIsZero(x)

\* x < y for finite x and y.
DecLess(x, y) == DecIsBelowZero(ExactSum(x, DecNeg(y)))

\* Decimal.prototype.add for any operands: NaN if one is NaN or they are
\* infinities of opposite signs, the infinite operand if one is infinite.
DecimalAdd(x, y) ==
    IF DecIsNaN(x) \/ DecIsNaN(y) THEN DecNaN
    ELSE IF ~ DecIsFinite(x) THEN (IF DecIsFinite(y) \/ x.s = y.s THEN x ELSE DecNaN)
    ELSE IF ~ DecIsFinite(y) THEN y
    ELSE DecAdd(x, y)

\* Decimal.prototype.sub
DecimalSub(x, y) == DecimalAdd(x, DecNeg(y))

\* Decimal.prototype.mul for any operands: NaN if one is NaN or for zero
\* times an infinity, an infinity if one is infinite.
DecimalMul(x, y) ==
    IF DecIsNaN(x) \/ DecIsNaN(y) THEN DecNaN
    ELSE IF ~ DecIsFinite(x) \/ ~ DecIsFinite(y)
         THEN (IF (DecIsFinite(x) /\ DecIsZero(x)) \/ (DecIsFinite(y) /\ DecIsZero(y))
               THEN DecNaN ELSE DecInfinity(x.s * y.s))
    ELSE DecMul(x, y)

\* The number that up to four digits stand for.
ToInt(d) ==
    IF d = <<>> THEN 0
    ELSE IF Len(d) = 1 THEN d[1]
    ELSE IF Len(d) = 2 THEN 10 * d[1] + d[2]
    ELSE IF Len(d) = 3 THEN 100 * d[1] + 10 * d[2] + d[3]
    ELSE 1000 * d[1] + 100 * d[2] + 10 * d[3] + d[4]

\* 10^k mod n, by halving k.
RECURSIVE Pow10Mod(_, _)
Pow10Mod(k, n) ==
    IF k = 0 THEN 1 % n
    ELSE IF k % 2 = 1 THEN (10 * Pow10Mod(k - 1, n)) % n
    ELSE (Pow10Mod(k \div 2, n) * Pow10Mod(k \div 2, n)) % n

\* The number that the digits lo..hi of d stand for, mod n, by halving the
\* range.
RECURSIVE RangeMod(_, _, _, _)
RangeMod(d, lo, hi, n) ==
    IF lo > hi THEN 0
    ELSE IF lo = hi THEN d[lo] % n
    ELSE (RangeMod(d, lo, (lo + hi) \div 2, n) * Pow10Mod(hi - (lo + hi) \div 2, n)
            + RangeMod(d, (lo + hi) \div 2 + 1, hi, n)) % n

\* Long division of the digits lo..hi of d by n, r being the remainder that
\* the digits before them left: the digits of the quotient and the remainder
\* they leave.  The range is halved, the remainder of the first half going
\* into the second.
RECURSIVE LongDivision(_, _, _, _, _)
Divided(first, second) == [q |-> first.q \o second.q, r |-> second.r]

ThenDivide(first, d, lo, hi, n) == Divided(first, LongDivision(d, lo, hi, first.r, n))

LongDivision(d, lo, hi, r, n) ==
    IF lo = hi THEN [q |-> <<(10 * r + d[lo]) \div n>>, r |-> (10 * r + d[lo]) % n]
    ELSE ThenDivide(LongDivision(d, lo, (lo + hi) \div 2, r, n), d, (lo + hi) \div 2 + 1, hi, n)

\* The digits of d \div n, d having a digit.
MagDivInt(d, n) == LongDivision(d, 1, Len(d), 0, n).q

\* x / y for finite operands that are not zero: the quotient of the
\* coefficients to more than Precision digits, rounded.
DecDiv(x, y) ==
    Finalise(MkDec(x.s * y.s,
                   MagDivInt(x.d \o Zeros(Precision + 1 + Len(y.d)), ToInt(y.d)),
                   x.e - (Precision + 1 + Len(y.d)) - y.e))

\* Decimal.prototype.div for any operands: NaN if one is NaN and for 0 / 0
\* and infinity / infinity, a zero for 0 / y and x / infinity, an infinity
\* for infinity / y and x / 0.
DecimalDiv(x, y) ==
    IF DecIsNaN(x) \/ DecIsNaN(y) THEN DecNaN
    ELSE IF ~ DecIsFinite(x) THEN (IF DecIsFinite(y) THEN DecInfinity(x.s * y.s) ELSE DecNaN)
    ELSE IF ~ DecIsFinite(y) THEN [DecZero EXCEPT !.s = x.s * y.s]
    ELSE IF DecIsZero(x) THEN (IF DecIsZero(y) THEN DecNaN ELSE [DecZero EXCEPT !.s = x.s * y.s])
    ELSE IF DecIsZero(y) THEN DecInfinity(x.s * y.s)
    ELSE DecDiv(x, y)

\* The digits of r, below 10^4, four wide.
FourDigits(r) == <<r \div 1000, (r \div 100) % 10, (r \div 10) % 10, r % 10>>

\* The digits of X mod (n * 10^k) for the digits X: those of the number
\* before the last k digits mod n, then the last k digits.
MagModAt(X, n, k) ==
    IF Len(X) <= k THEN X
    ELSE FourDigits(RangeMod(X, 1, Len(X) - k, n)) \o SubSeq(X, Len(X) - k + 1, Len(X))

\* The remainder of x by y at the exponent e of their last digits.  A
\* remainder of zero is the difference of two equal numbers, a positive zero.
DecModAt(x, y, e) ==
    IF LastNonZero(MagModAt(x.d \o Zeros(x.e - e), ToInt(y.d), y.e - e)) = 0 THEN DecZero
    ELSE Finalise(MkDec(x.s, MagModAt(x.d \o Zeros(x.e - e), ToInt(y.d), y.e - e), e))

\* Decimal.prototype.mod, the remainder of the division truncated to an
\* integer, with the sign of x: NaN if x is no finite number or y is NaN or
\* zero, x if y is infinite or x is zero.
DecimalMod(x, y) ==
    IF ~ DecIsFinite(x) \/ DecIsNaN(y) \/ (DecIsFinite(y) /\ DecIsZero(y)) THEN DecNaN
    ELSE IF ~ DecIsFinite(y) \/ DecIsZero(x) THEN Finalise(x)
    ELSE DecModAt(x, y, IF x.e < y.e THEN x.e ELSE y.e)

\* Decimal.prototype.abs
DecimalAbs(x) == IF DecIsNaN(x) THEN x ELSE [x EXCEPT !.s = 1]

\* The digits of x before the decimal point, x having digits after it.
IntegerDigits(x) == SubSeq(x.d, 1, Len(x.d) + x.e)

\* The first digit of x after the decimal point.
FirstFractionDigit(x) == IF Len(x.d) + x.e >= 0 THEN x.d[Len(x.d) + x.e + 1] ELSE 0

\* x rounded to an integer, away from zero if up and towards it if not.
ToInteger(x, up) ==
    IF ~ DecIsFinite(x) \/ x.e >= 0 THEN x
    ELSE MkDec(x.s, MagAddC(IntegerDigits(x), Zeros(Len(IntegerDigits(x))), IF up THEN 1 ELSE 0), 0)

\* Decimal.prototype.trunc, floor, ceil, and round (ROUND_HALF_UP, a half
\* going away from zero).
DecimalTrunc(x) == ToInteger(x, FALSE)
DecimalFloor(x) == ToInteger(x, x.s = -1)
DecimalCeil(x) == ToInteger(x, x.s = 1)
DecimalRound(x) == ToInteger(x, DecIsFinite(x) /\ x.e < 0 /\ FirstFractionDigit(x) >= 5)

\* x < y for any operands: nothing is below or above NaN.
DecimalLess(x, y) ==
    IF DecIsNaN(x) \/ DecIsNaN(y) THEN FALSE
    ELSE IF ~ DecIsFinite(x) THEN x.s = -1 /\ ~ (~ DecIsFinite(y) /\ y.s = -1)
    ELSE IF ~ DecIsFinite(y) THEN y.s = 1
    ELSE DecLess(x, y)

\* Decimal.prototype.equals: NaN equals nothing, a zero equals a zero of the
\* other sign.
DecimalEquals(x, y) ==
    IF DecIsNaN(x) \/ DecIsNaN(y) THEN FALSE
    ELSE IF ~ DecIsFinite(x) \/ ~ DecIsFinite(y) THEN x = y
    ELSE DecIsZero(ExactSum(x, DecNeg(y)))

\* Decimal.prototype.greaterThan
DecimalGreater(x, y) == DecimalLess(y, x)

\* x.plus(y) inside Decimal.sum, where the result is not rounded.
DecimalPlus(x, y) ==
    IF DecIsNaN(x) \/ DecIsNaN(y) THEN DecNaN
    ELSE IF ~ DecIsFinite(x) THEN (IF DecIsFinite(y) \/ x.s = y.s THEN x ELSE DecNaN)
    ELSE IF ~ DecIsFinite(y) THEN y
    ELSE ExactSum(x, y)

\* The loop of Decimal.sum from the i-th argument on: it ends at NaN.
RECURSIVE SumFrom(_, _, _)
SumFrom(amounts, i, x) ==
    IF i > Len(amounts) \/ DecIsNaN(x) THEN x
    ELSE SumFrom(amounts, i + 1, DecimalPlus(x, amounts[i]))

\* The sum with the loop left out.
DecimalSumOfTheFirst(amounts) == Finalise(amounts[1])

\* Decimal.sum of one argument or more: rounded once, at the end.
DecimalSum(amounts) == Finalise(SumFrom(amounts, 2, amounts[1]))

\* Decimal.prototype.toNumber: the number is the Decimal itself for NaN, the
\* infinities and the integers below 2^53.
DecimalToNumber(x) == x

(***************************************************************************)
(* Regular expressions.  Every pattern is anchored at both ends, so a match *)
(* is a way to split the whole string into the pattern's parts; positions   *)
(* are indices into the string, an end position is the index after the part.*)
(***************************************************************************)
Min(a, b) == IF a < b THEN a ELSE b

\* [x] under the i flag (ci) or without it.
CharIs(str, p, chars, ci) ==
    /\ p >= 1
    /\ p <= Len(str)
    /\ (IF ci THEN ToLowerChar(str[p]) ELSE str[p]) \in chars

\* \d{lo,hi} from position p.
DigitRunEnds(str, p, lo, hi) ==
    {j \in (p + lo)..Min(p + hi, Len(str) + 1) : \A k \in p..(j - 1) : str[k] \in DigitChars}

\* (?:[sep]\d{3})+ from position p.
RECURSIVE GroupEnds(_, _, _)
GroupEnds(str, p, sep) ==
    IF /\ p + 3 <= Len(str)
       /\ str[p] = sep
       /\ \A k \in (p + 1)..(p + 3) : str[k] \in DigitChars
    THEN {p + 4} \cup GroupEnds(str, p + 4, sep)
    ELSE {}

\* IntEnds with a leading group of up to four digits: the fault of a wrong
\* group width.
IntEndsWideLeadingGroup(str, p) ==
    (UNION {GroupEnds(str, j, ",") \cup GroupEnds(str, j, "_") : j \in DigitRunEnds(str, p, 1, 4)})
        \cup DigitRunEnds(str, p, 1, Len(str))

\* (?:\d{1,3}(?:(?:[,]\d{3})+|(?:[_]\d{3})+))|\d+
IntEnds(str, p) ==
    (UNION {GroupEnds(str, j, ",") \cup GroupEnds(str, j, "_") : j \in DigitRunEnds(str, p, 1, 3)})
        \cup DigitRunEnds(str, p, 1, Len(str))

\* (?<neg>[-]){0,1} from position 1.
NegEnds(str) == {1} \cup (IF CharIs(str, 1, {"-"}, FALSE) THEN {2} ELSE {})

\* (?:[.](?<fractional>\d+)){0,1} from position p.
FractionEnds(str, p) ==
    {p} \cup (IF CharIs(str, p, {"."}, FALSE) THEN DigitRunEnds(str, p + 1, 1, Len(str)) ELSE {})

\* [ ]* from position p.
RECURSIVE SpaceEnds(_, _)
SpaceEnds(str, p) ==
    {p} \cup (IF CharIs(str, p, {" "}, FALSE) THEN SpaceEnds(str, p + 1) ELSE {})

\* The text a group captured between two positions; a group that took no part
\* in the match is undefined.
Capture(str, from, to) == IF to = from THEN Undefined ELSE SubSeq(str, from, to - 1)

AtEnd(str, p) == p = Len(str) + 1

NoGroups ==
    [neg |-> Undefined, explicitCopper |-> Undefined, fractionalCopper |-> Undefined,
     gold |-> Undefined, fractionalGold |-> Undefined, goldNotation |-> Undefined,
     and_silver |-> Undefined, and_copper |-> Undefined,
     or_silver |-> Undefined, or_copper |-> Undefined]

GOLD_NOTATIONS == {"g", "k", "m", "b"}

\* explicit-copper-expression-type.ts: regexp, with the i flag.
ExplicitCopperRegexp(str) ==
    UNION {UNION {
        {[NoGroups EXCEPT !.neg = Capture(str, 1, p1),
                          !.explicitCopper = SubSeq(str, p1, p2 - 1),
                          !.fractionalCopper = Capture(str, p2 + 1, IF p3 = p2 THEN p2 + 1 ELSE p3)]
            : p3 \in {q \in FractionEnds(str, p2) : CharIs(str, q, {"c"}, TRUE) /\ AtEnd(str, q + 1)}}
        : p2 \in IntEnds(str, p1)} : p1 \in NegEnds(str)}

\* SilverAndCopperRegexp with \d{1,3} for both segments: the fault of a
\* segment of three digits.
SilverAndCopperRegexpThreeDigits(str) ==
    UNION {UNION {UNION {
        {[NoGroups EXCEPT !.neg = Capture(str, 1, p1),
                          !.and_silver = SubSeq(str, p1, p2 - 1),
                          !.and_copper = SubSeq(str, p3, p4 - 1)]
            : p4 \in {q \in DigitRunEnds(str, p3, 1, 3) : CharIs(str, q, {"c"}, TRUE) /\ AtEnd(str, q + 1)}}
        : p3 \in (IF CharIs(str, p2, {"s"}, TRUE) THEN SpaceEnds(str, p2 + 1) ELSE {})}
        : p2 \in DigitRunEnds(str, p1, 1, 3)} : p1 \in NegEnds(str)}

\* silver-and-copper-expression-type.ts: regexp, with the i flag.
SilverAndCopperRegexp(str) ==
    UNION {UNION {UNION {
        {[NoGroups EXCEPT !.neg = Capture(str, 1, p1),
                          !.and_silver = SubSeq(str, p1, p2 - 1),
                          !.and_copper = SubSeq(str, p3, p4 - 1)]
            : p4 \in {q \in DigitRunEnds(str, p3, 1, 2) : CharIs(str, q, {"c"}, TRUE) /\ AtEnd(str, q + 1)}}
        : p3 \in (IF CharIs(str, p2, {"s"}, TRUE) THEN SpaceEnds(str, p2 + 1) ELSE {})}
        : p2 \in DigitRunEnds(str, p1, 1, 2)} : p1 \in NegEnds(str)}

\* silver-or-copper-expression-type.ts: regexp, with the i flag.
SilverOrCopperRegexp(str) ==
    UNION {
        {[NoGroups EXCEPT !.neg = Capture(str, 1, p1),
                          !.or_silver = SubSeq(str, p1, p2 - 1)]
            : p2 \in {q \in DigitRunEnds(str, p1, 1, 2) : CharIs(str, q, {"s"}, TRUE) /\ AtEnd(str, q + 1)}}
        \cup
        {[NoGroups EXCEPT !.neg = Capture(str, 1, p1),
                          !.or_copper = SubSeq(str, p1, p2 - 1)]
            : p2 \in {q \in DigitRunEnds(str, p1, 1, 2) : CharIs(str, q, {"c"}, TRUE) /\ AtEnd(str, q + 1)}}
        : p1 \in NegEnds(str)}

\* [-]INT[.FRAC]NOTATION over the whole string: the pattern of both explicit
\* gold types; ci is the i flag, fractional whether [.FRAC] is in the pattern.
NotatedGoldRegexp(str, fractional, ci) ==
    UNION {UNION {
        {[NoGroups EXCEPT !.neg = Capture(str, 1, p1),
                          !.gold = SubSeq(str, p1, p2 - 1),
                          !.fractionalGold = Capture(str, p2 + 1, IF p3 = p2 THEN p2 + 1 ELSE p3),
                          !.goldNotation = SubSeq(str, p3, p3)]
            : p3 \in {q \in (IF fractional THEN FractionEnds(str, p2) ELSE {p2})
                        : CharIs(str, q, GOLD_NOTATIONS, ci) /\ AtEnd(str, q + 1)}}
        : p2 \in IntEnds(str, p1)} : p1 \in NegEnds(str)}

\* explicit-gold-expression-type.ts: regexp, without flags.
ExplicitGoldRegexp(str) == NotatedGoldRegexp(str, TRUE, FALSE)

\* The other revision of the explicit gold type (unnamed/part_007): regexp, with the i flag.
ExplicitGoldRegexpI(str) == NotatedGoldRegexp(str, TRUE, TRUE)

\* OnlyGoldRegexp with the fractional part of ExplicitGoldRegexp: the fault of
\* taking a fractional amount.
OnlyGoldRegexpWithFraction(str) == NotatedGoldRegexp(str, TRUE, FALSE)

\* explicit-only-gold-expression-type.ts (gold.ts:1186): regexp, without flags.
OnlyGoldRegexp(str) == NotatedGoldRegexp(str, FALSE, FALSE)

\* SuffixLookbehind without its negative lookbehind: the fault of admitting a
\* suffix after a fractional amount with a notation.
SuffixLookbehindAnyNotation(str, p) == CharIs(str, p - 1, GOLD_NOTATIONS, FALSE)

\* (?<=(?<![.]\d+)[gkmb]) at position p: the previous character is a notation
\* letter that no "." followed by digits leads up to.
SuffixLookbehind(str, p) ==
    /\ CharIs(str, p - 1, GOLD_NOTATIONS, FALSE)
    /\ ~ \E j \in 1..(p - 3) :
            /\ str[j] = "."
            /\ \A k \in (j + 1)..(p - 2) : str[k] \in DigitChars

\* regexpParts.silverAndCopperSuffix from position p, to the end of the string.
SilverAndCopperSuffix(str, p, g) ==
    IF ~ SuffixLookbehind(str, p) THEN {}
    ELSE UNION {UNION {UNION {
        {[g EXCEPT !.and_silver = SubSeq(str, q1, q2 - 1),
                   !.and_copper = SubSeq(str, q3, q4 - 1)]
            : q4 \in {q \in DigitRunEnds(str, q3, 1, 2) : CharIs(str, q, {"c"}, FALSE) /\ AtEnd(str, q + 1)}}
        : q3 \in (IF CharIs(str, q2, {"s"}, FALSE) THEN SpaceEnds(str, q2 + 1) ELSE {})}
        : q2 \in DigitRunEnds(str, q1, 1, 2)} : q1 \in SpaceEnds(str, p)}

\* regexpParts.silverOrCopperSuffix from position p, to the end of the string.
SilverOrCopperSuffix(str, p, g) ==
    IF ~ SuffixLookbehind(str, p) THEN {}
    ELSE UNION {
        {[g EXCEPT !.or_silver = SubSeq(str, q1, q2 - 1)]
            : q2 \in {q \in DigitRunEnds(str, q1, 1, 2) : CharIs(str, q, {"s"}, FALSE) /\ AtEnd(str, q + 1)}}
        \cup
        {[g EXCEPT !.or_copper = SubSeq(str, q1, q2 - 1)]
            : q2 \in {q \in DigitRunEnds(str, q1, 1, 2) : CharIs(str, q, {"c"}, FALSE) /\ AtEnd(str, q + 1)}}
        : q1 \in SpaceEnds(str, p)}

\* generic-gold-expression-type.ts: regexp, built by new RegExp(...) without flags.
GenericGoldRegexp(str) ==
    UNION {UNION {UNION {UNION {
        LET g == [NoGroups EXCEPT !.neg = Capture(str, 1, p1),
                                  !.gold = SubSeq(str, p1, p2 - 1),
                                  !.fractionalGold = Capture(str, p2 + 1, IF p3 = p2 THEN p2 + 1 ELSE p3),
                                  !.goldNotation = Capture(str, p3, p4)]
        IN SilverAndCopperSuffix(str, p4, g)
             \cup SilverOrCopperSuffix(str, p4, g)
             \cup (IF AtEnd(str, p4) THEN {g} ELSE {})
        : p4 \in {p3} \cup (IF CharIs(str, p3, GOLD_NOTATIONS, FALSE) THEN {p3 + 1} ELSE {})}
        : p3 \in FractionEnds(str, p2)}
        : p2 \in IntEnds(str, p1)} : p1 \in NegEnds(str)}

\* Gold.ExpressionType, and the second revision of EXPLICIT_GOLD.
ExpressionTypes ==
    {"EXPLICIT_COPPER", "SILVER_AND_COPPER", "SILVER_OR_COPPER",
     "EXPLICIT_GOLD", "EXPLICIT_GOLD_I", "EXPLICIT_ONLY_GOLD", "GENERIC_GOLD"}

\* A type that a caller makes by GoldExpressionType.create, of a regexp with
\* the source of that of EXPLICIT_COPPER and the flags g and i, and of the
\* parser of EXPLICIT_COPPER.
CreatedTypes == {"GLOBAL_COPPER"}

\* The lastIndex of the regexp of every expression type as its literal or
\* new RegExp leaves it.
NoneMatched == [type \in ExpressionTypes \cup CreatedTypes |-> 0]

\* The ways the regexp of an expression type matches the string.
Regexp(type, str) ==
    CASE type = "EXPLICIT_COPPER" -> ExplicitCopperRegexp(str)
      [] type = "SILVER_AND_COPPER" -> SilverAndCopperRegexp(str)
      [] type = "SILVER_OR_COPPER" -> SilverOrCopperRegexp(str)
      [] type = "EXPLICIT_GOLD" -> ExplicitGoldRegexp(str)
      [] type = "EXPLICIT_GOLD_I" -> ExplicitGoldRegexpI(str)
      [] type = "EXPLICIT_ONLY_GOLD" -> OnlyGoldRegexp(str)
      [] type = "GENERIC_GOLD" -> GenericGoldRegexp(str)

(***************************************************************************)
(* gold.ts: constants                                                      *)
(***************************************************************************)
ONE == [s |-> 1, d |-> <<1>>, e |-> 0]
HUNDRED == [s |-> 1, d |-> <<1>>, e |-> 2]
THOUSAND == [s |-> 1, d |-> <<1>>, e |-> 3]
MILLION == [s |-> 1, d |-> <<1>>, e |-> 6]
BILLION == [s |-> 1, d |-> <<1>>, e |-> 9]

COPPER_PER_COPPER == ONE
COPPER_PER_SILVER == DecMul(COPPER_PER_COPPER, HUNDRED)
COPPER_PER_GOLD == DecMul(COPPER_PER_SILVER, HUNDRED)
COPPER_PER_THOUSAND_GOLD == DecMul(COPPER_PER_GOLD, THOUSAND)
COPPER_PER_MILLION_GOLD == DecMul(COPPER_PER_GOLD, MILLION)
COPPER_PER_BILLION_GOLD == DecMul(COPPER_PER_GOLD, BILLION)

GoldNotationCopperMultiplier(notation) ==
    CASE notation = <<"g">> -> COPPER_PER_GOLD
      [] notation = <<"k">> -> COPPER_PER_THOUSAND_GOLD
      [] notation = <<"m">> -> COPPER_PER_MILLION_GOLD
      [] notation = <<"b">> -> COPPER_PER_BILLION_GOLD

\* Gold.getGoldNotationCopperMultiplier: a notation that is not one of
\* GOLD_NOTATIONS (undefined, or a letter in upper case) counts as 'g'.
getGoldNotationCopperMultiplier(notation) ==
    GoldNotationCopperMultiplier(
        IF notation # Undefined /\ notation \in {<<n>> : n \in GOLD_NOTATIONS}
        THEN notation ELSE <<"g">>)

(***************************************************************************)
(* gold-expression-type.ts                                                 *)
(***************************************************************************)
Thrown(error) == [kind |-> "throw", error |-> error]
NoValue == [kind |-> "undefined"]
Groups(g) == [kind |-> "groups", groups |-> g]
Copper(x) == [kind |-> "decimal", value |-> x]
Boolean(b) == [kind |-> "boolean", value |-> b]
GoldInstance(rawCopper) == [kind |-> "gold", rawCopper |-> rawCopper]

\* expression.toString(), trimmed unless doNotTrim.
Normalise(expr, dnt) == IF dnt THEN expr ELSE Trim(expr)

\* GoldExpressionType.test
Test(expr, type, dnt) ==
    IF expr \in {Null, Undefined} THEN FALSE
    ELSE Regexp(type, Normalise(expr, dnt)) # {}

\* What GoldExpressionType.match returns for the ways found to match, which
\* are at most one (MatchIsUnique).
GroupsOf(found) == IF found # {} THEN Groups(CHOOSE g \in found : TRUE) ELSE NoValue

\* Match checking for null only: the fault of letting undefined through to
\* the conversion to a string.
MatchNullOnly(expr, type, dnt) ==
    IF expr = Null THEN Thrown("InvalidGoldExpressionError")
    ELSE GroupsOf(Regexp(type, Normalise(expr, dnt)))

\* GoldExpressionType.match
Match(expr, type, dnt) ==
    IF expr \in {Null, Undefined} THEN Thrown("InvalidGoldExpressionError")
    ELSE GroupsOf(Regexp(type, Normalise(expr, dnt)))

\* `${match.neg ?? ""}`
NegPrefix(g) == IF g.neg = Undefined THEN <<>> ELSE g.neg

(***************************************************************************)
(* The parser callbacks.  Each calls GoldExpressionType.match without      *)
(* passing its doNotTrim on, so the match runs with the default, false.    *)
(***************************************************************************)
\* ExplicitCopperParser passing the number through a native number of 15
\* reliable digits: the fault of an intermediate floating-point conversion.
ExplicitCopperParserViaNumber(expr, dnt) ==
    LET match == Match(expr, "EXPLICIT_COPPER", FALSE)
    IN IF match.kind = "groups" THEN
           LET g == match.groups
               fractionalCopperStr ==
                   IF g.fractionalCopper # Undefined THEN <<".">> \o g.fractionalCopper ELSE <<>>
               exact == DecFromString(NegPrefix(g) \o StripSeparators(g.explicitCopper) \o fractionalCopperStr)
           IN Copper(IF Len(exact.d) <= 15 THEN exact
                     ELSE MkDec(exact.s, SubSeq(exact.d, 1, 15), exact.e + (Len(exact.d) - 15)))
       ELSE match

\* explicit-copper-expression-type.ts: the callback from its match on.
ExplicitCopperTotal(match) ==
    IF match.kind = "groups"
    THEN Copper(DecFromString(
             NegPrefix(match.groups) \o StripSeparators(match.groups.explicitCopper)
                 \o (IF match.groups.fractionalCopper # Undefined
                     THEN <<".">> \o match.groups.fractionalCopper ELSE <<>>)))
    ELSE match

ExplicitCopperParser(expr, dnt) == ExplicitCopperTotal(Match(expr, "EXPLICIT_COPPER", FALSE))

\* The body shared by the silver-and-copper and silver-or-copper parsers, on
\* the captured silver and copper.
SilverCopperTotal(g, silverStr, copperStr) ==
    DecAdd(DecFromString(NegPrefix(g) \o
                         (IF silverStr # Undefined
                          THEN DecToString(DecMul(DecFromString(silverStr), COPPER_PER_SILVER))
                          ELSE <<"0">>)),
           IF copperStr # Undefined
           THEN DecMul(DecFromString(copperStr), COPPER_PER_COPPER)
           ELSE DecZero)

\* silver-and-copper-expression-type.ts (unnamed/part_005): the callback from
\* its match on.
SilverAndCopperTotal(match) ==
    IF match.kind = "groups"
    THEN Copper(SilverCopperTotal(match.groups, match.groups.and_silver, match.groups.and_copper))
    ELSE match

SilverAndCopperParser(expr, dnt) == SilverAndCopperTotal(Match(expr, "SILVER_AND_COPPER", FALSE))

\* silver-or-copper-expression-type.ts (unnamed/part_006): the callback from
\* its match on.
SilverOrCopperTotal(match) ==
    IF match.kind = "groups"
    THEN Copper(SilverCopperTotal(match.groups, match.groups.or_silver, match.groups.or_copper))
    ELSE match

SilverOrCopperParser(expr, dnt) == SilverOrCopperTotal(Match(expr, "SILVER_OR_COPPER", FALSE))

\* totalCopper plus the fraction of the gold times COPPER_PER_GOLD, if the
\* match has a fraction.
WithFractionalGold(totalCopper, g) ==
    IF g.fractionalGold # Undefined
    THEN DecAdd(totalCopper,
                DecMul(DecFromString(NegPrefix(g) \o <<"0", ".">> \o g.fractionalGold), COPPER_PER_GOLD))
    ELSE totalCopper

\* The gold of a match: the integral part times the multiplier of the
\* notation, plus the fraction times COPPER_PER_GOLD.
GoldTotal(g) ==
    WithFractionalGold(
        DecMul(DecFromString(NegPrefix(g) \o StripSeparators(g.gold)),
               getGoldNotationCopperMultiplier(g.goldNotation)),
        g)

\* explicit-gold-expression-type.ts: the callback from its match on.
ExplicitGoldTotal(match) ==
    IF match.kind = "groups" THEN Copper(GoldTotal(match.groups)) ELSE match

ExplicitGoldParser(expr, dnt) == ExplicitGoldTotal(Match(expr, "EXPLICIT_GOLD", FALSE))

\* The other revision of the explicit gold type (unnamed/part_007): the
\* callback from its match on.
ExplicitGoldTotalI(match) ==
    IF match.kind = "groups"
    THEN Copper(DecMul(DecFromString(
                           NegPrefix(match.groups) \o StripSeparators(match.groups.gold) \o <<".">>
                               \o (IF match.groups.fractionalGold # Undefined
                                   THEN match.groups.fractionalGold ELSE <<"0">>)),
                       getGoldNotationCopperMultiplier(match.groups.goldNotation)))
    ELSE match

ExplicitGoldParserI(expr, dnt) == ExplicitGoldTotalI(Match(expr, "EXPLICIT_GOLD_I", FALSE))

\* explicit-only-gold-expression-type.ts (gold.ts:1192): the callback from its
\* match on.
OnlyGoldTotal(match) ==
    IF match.kind = "groups"
    THEN Copper(DecMul(DecFromString(NegPrefix(match.groups) \o StripSeparators(match.groups.gold)),
                       getGoldNotationCopperMultiplier(match.groups.goldNotation)))
    ELSE match

OnlyGoldParser(expr, dnt) == OnlyGoldTotal(Match(expr, "EXPLICIT_ONLY_GOLD", FALSE))

\* a ?? b
Coalesce(a, b) == IF a # Undefined THEN a ELSE b

\* totalCopper plus the signed segment times its copper, if the match has the
\* segment.
WithSegment(totalCopper, g, segment, copperPerSegment) ==
    IF segment # Undefined
    THEN DecAdd(totalCopper, DecMul(DecFromString(NegPrefix(g) \o segment), copperPerSegment))
    ELSE totalCopper

\* generic-gold-expression-type.ts: the callback from its match on.
GenericGoldTotal(match) ==
    IF match.kind = "groups"
    THEN Copper(WithSegment(
                    WithSegment(IF match.groups.gold # Undefined THEN GoldTotal(match.groups) ELSE DecZero,
                                match.groups,
                                Coalesce(match.groups.and_silver, match.groups.or_silver),
                                COPPER_PER_SILVER),
                    match.groups,
                    Coalesce(match.groups.and_copper, match.groups.or_copper),
                    COPPER_PER_COPPER))
    ELSE match

\* GenericGoldParser adding the copper without the sign: the fault of a sign
\* that reaches only some of the terms.
GenericGoldParserUnsignedCopper(expr, dnt) ==
    LET match == Match(expr, "GENERIC_GOLD", FALSE)
    IN IF match.kind = "groups" THEN
           LET g == match.groups
               gold == IF g.gold # Undefined THEN GoldTotal(g) ELSE DecZero
               silver == IF g.and_silver # Undefined THEN g.and_silver ELSE g.or_silver
               copper == IF g.and_copper # Undefined THEN g.and_copper ELSE g.or_copper
               withSilver ==
                   IF silver # Undefined
                   THEN DecAdd(gold, DecMul(DecFromString(NegPrefix(g) \o silver), COPPER_PER_SILVER))
                   ELSE gold
           IN Copper(IF copper # Undefined
                     THEN DecAdd(withSilver, DecMul(DecFromString(copper), COPPER_PER_COPPER))
                     ELSE withSilver)
       ELSE match

GenericGoldParser(expr, dnt) == GenericGoldTotal(Match(expr, "GENERIC_GOLD", FALSE))

\* GoldExpressionType.parseCopper: this.parser(expression, this, doNotTrim)
ParseCopper(type, expr, dnt) ==
    CASE type = "EXPLICIT_COPPER" -> ExplicitCopperParser(expr, dnt)
      [] type = "SILVER_AND_COPPER" -> SilverAndCopperParser(expr, dnt)
      [] type = "SILVER_OR_COPPER" -> SilverOrCopperParser(expr, dnt)
      [] type = "EXPLICIT_GOLD" -> ExplicitGoldParser(expr, dnt)
      [] type = "EXPLICIT_GOLD_I" -> ExplicitGoldParserI(expr, dnt)
      [] type = "EXPLICIT_ONLY_GOLD" -> OnlyGoldParser(expr, dnt)
      [] type = "GENERIC_GOLD" -> GenericGoldParser(expr, dnt)

(***************************************************************************)
(* The regexp of an expression type is one object, passed to create and    *)
(* kept in _regexp; RegExp.prototype.test and String.prototype.match read  *)
(* and write its lastIndex when it carries the flag g.                     *)
(***************************************************************************)
\* RegExp.prototype.global: no regexp of the library carries the flag.
global(type) == type \in CreatedTypes

\* RegExp.prototype.source
Source(type) == IF type \in CreatedTypes THEN "EXPLICIT_COPPER" ELSE type

\* RegExpBuiltinExec from the ways the pattern matches the whole string: the
\* patterns are anchored at both ends, so a match starts at index 0 and ends
\* at the length of the string.  Without the flag g lastIndex is left alone;
\* with it the search starts at lastIndex, which is then set to the end of
\* the match, or to 0 where none is found.
ExecFrom(found, isGlobal, index, length) ==
    IF ~ isGlobal THEN [found |-> found, lastIndex |-> index]
    ELSE IF index = 0 /\ found # {} THEN [found |-> found, lastIndex |-> length]
    ELSE [found |-> {}, lastIndex |-> 0]

RegExpBuiltinExec(type, str, index) ==
    ExecFrom(Regexp(Source(type), str), global(type), index, Len(str))

Tested(exec) == [value |-> Boolean(exec.found # {}), lastIndex |-> exec.lastIndex]

\* GoldExpressionType.test, the lastIndex of the regexp being index.
TestAt(expr, type, dnt, index) ==
    IF expr \in {Null, Undefined} THEN [value |-> Boolean(FALSE), lastIndex |-> index]
    ELSE Tested(RegExpBuiltinExec(type, Normalise(expr, dnt), index))

\* GoldExpressionType.match, the lastIndex of the regexp being index.  With
\* the flag g String.prototype.match starts from 0, returns the matched
\* strings in an array that has no groups, or null, and leaves lastIndex 0.
MatchAt(expr, type, dnt, index) ==
    IF expr \in {Null, Undefined}
    THEN [value |-> Thrown("InvalidGoldExpressionError"), lastIndex |-> index]
    ELSE IF global(type) THEN [value |-> NoValue, lastIndex |-> 0]
    ELSE [value |-> Match(expr, type, dnt), lastIndex |-> index]

ParsedBy(match) == [value |-> ExplicitCopperTotal(match.value), lastIndex |-> match.lastIndex]

\* GoldExpressionType.parseCopper, the lastIndex of the regexp being index.
ParseCopperAt(type, expr, dnt, index) ==
    IF global(type) THEN ParsedBy(MatchAt(expr, type, FALSE, index))
    ELSE [value |-> ParseCopper(type, expr, dnt), lastIndex |-> index]

(***************************************************************************)
(* gold.ts: Gold                                                           *)
(***************************************************************************)
\* defaultExpressionTypes with the explicit copper type tried last: the fault
\* of a wrong priority order.
defaultExpressionTypesCopperLast ==
    <<"SILVER_AND_COPPER", "SILVER_OR_COPPER", "GENERIC_GOLD", "EXPLICIT_COPPER">>

\* The order Gold.parse and Gold.isGoldExpression try the types in.
defaultExpressionTypes ==
    <<"EXPLICIT_COPPER", "SILVER_AND_COPPER", "SILVER_OR_COPPER", "GENERIC_GOLD">>

NoType == "none"

\* The values of JavaScript a caller passes for an amount: a number (NaN and
\* the infinities included), a bigint, a Decimal, or something else, of which
\* only the type matters.  A finite number is the Decimal that new Decimal
\* makes of it.
Number(v) == [type |-> "number", value |-> v]
BigInt(v) == [type |-> "bigint", value |-> v]
DecimalOf(v) == [type |-> "Decimal", value |-> v]
JSString == [type |-> "string"]
JSBoolean == [type |-> "boolean"]
JSObject == [type |-> "object"]
JSNull == [type |-> "null"]
JSUndefined == [type |-> "undefined"]

\* A segments object has, for each segment name, a value or no such key.
Absent == [type |-> "absent"]

SEGMENT_NAMES == <<"gold", "silver", "copper">>

\* Number.MAX_SAFE_INTEGER, 2^53 - 1, and Number.MIN_SAFE_INTEGER.
MAX_SAFE_INTEGER == [s |-> 1, d |-> <<9, 0, 0, 7, 1, 9, 9, 2, 5, 4, 7, 4, 0, 9, 9, 1>>, e |-> 0]
MIN_SAFE_INTEGER == DecNeg(MAX_SAFE_INTEGER)

\* SegmentCopperAmount[segment], an unknown name counting as 'copper'.
getSegmentCopperAmount(segment) ==
    CASE segment = "gold" -> COPPER_PER_GOLD
      [] segment = "silver" -> COPPER_PER_SILVER
      [] OTHER -> COPPER_PER_COPPER

\* segments[name]: undefined if there is no such key.
Property(segments, name) == IF segments[name] = Absent THEN JSUndefined ELSE segments[name]

\* a ?? b
Coalescing(a, b) == IF a.type \in {"null", "undefined"} THEN b ELSE a

\* The checks with the safe range applied to an amount of any type.
SegmentErrorRangeForAnyType(amount) ==
    IF amount.type \notin {"Decimal", "number", "bigint"} THEN "TypeError"
    ELSE IF DecIsNaN(amount.value) THEN "ValueNaNError"
    ELSE IF ~ DecIsFinite(amount.value) THEN "InfiniteValueError"
    ELSE IF DecLess(amount.value, MIN_SAFE_INTEGER) \/ DecLess(MAX_SAFE_INTEGER, amount.value)
         THEN "UnsafeNumberError"
    ELSE "none"

\* The error that the checks of getCopperFromTotal raise for an amount, "none"
\* if it passes them.
SegmentError(amount) ==
    CASE amount.type = "Decimal" ->
            IF ~ DecIsFinite(amount.value) THEN "InfiniteValueError" ELSE "none"
      [] amount.type = "number" ->
            IF DecIsNaN(amount.value) THEN "ValueNaNError"
            ELSE IF ~ DecIsFinite(amount.value) THEN "InfiniteValueError"
            ELSE IF DecLess(amount.value, MIN_SAFE_INTEGER) \/ DecLess(MAX_SAFE_INTEGER, amount.value)
                 THEN "UnsafeNumberError"
            ELSE "none"
      [] amount.type = "bigint" -> "none"
      [] OTHER -> "TypeError"

\* totalCopper.add(new Decimal(amount).mul(Gold.getSegmentCopperAmount(segmentName)))
AddSegment(totalCopper, amount, segmentName) ==
    DecAdd(totalCopper, DecMul(amount.value, getSegmentCopperAmount(segmentName)))

\* The loop of getCopperFromTotal from the i-th segment name on: a key that
\* is not in segments is passed over, an amount that fails a check ends it.
RECURSIVE SumSegments(_, _, _)
SumSegments(segments, i, totalCopper) ==
    IF i > Len(SEGMENT_NAMES) THEN Copper(totalCopper)
    ELSE IF segments[SEGMENT_NAMES[i]] = Absent THEN SumSegments(segments, i + 1, totalCopper)
    ELSE IF SegmentError(segments[SEGMENT_NAMES[i]]) # "none"
         THEN Thrown(SegmentError(segments[SEGMENT_NAMES[i]]))
    ELSE SumSegments(segments, i + 1,
                     AddSegment(totalCopper, segments[SEGMENT_NAMES[i]], SEGMENT_NAMES[i]))

\* Gold.getCopperFromTotal
getCopperFromTotal(segments) ==
    IF Coalescing(Property(segments, "gold"),
                  Coalescing(Property(segments, "silver"), Property(segments, "copper")))
           = JSUndefined
    THEN Copper(DecZero)
    ELSE SumSegments(segments, 1, DecZero)

\* The Gold that a constructor leaves if getCopperFromTotal returned, or what
\* it threw.
GoldOf(totalCopper) ==
    IF totalCopper.kind = "throw" THEN totalCopper ELSE GoldInstance(totalCopper.value)

\* new Gold(rawCopper) for any value
Construct(rawCopper) ==
    GoldOf(getCopperFromTotal([gold |-> Absent, silver |-> Absent, copper |-> rawCopper]))

\* new Gold(rawCopper) for a Decimal
NewGold(rawCopper) == Construct(DecimalOf(rawCopper))

\* new Gold(Gold.getCopperFromTotal(segments))
NewGoldOrThrow(totalCopper) ==
    IF totalCopper.kind = "throw" THEN totalCopper ELSE NewGold(totalCopper.value)

\* Gold.fromTotal
fromTotal(segments) == NewGoldOrThrow(getCopperFromTotal(segments))

\* The getters gold, silver and copper of a Gold with this _rawCopper.
gold(rawCopper) ==
    DecimalToNumber(DecimalFloor(DecimalDiv(DecimalAbs(rawCopper), COPPER_PER_GOLD)))

silver(rawCopper) ==
    DecimalToNumber(DecimalFloor(DecimalDiv(DecimalMod(DecimalAbs(rawCopper), COPPER_PER_GOLD),
                                            COPPER_PER_SILVER)))

copper(rawCopper) ==
    DecimalToNumber(DecimalFloor(DecimalMod(DecimalAbs(rawCopper), COPPER_PER_SILVER)))

\* this._rawCopper.div(COPPER_PER_GOLD), brought to an integer, .mul(COPPER_PER_GOLD)
ToGold(wholeGold) == DecimalMul(wholeGold, COPPER_PER_GOLD)

\* Decimal.prototype.clamp for min <= max: NaN if a bound is NaN.
DecimalClamp(x, min, max) ==
    IF DecIsNaN(min) \/ DecIsNaN(max) THEN DecNaN
    ELSE IF DecimalLess(x, min) THEN min
    ELSE IF DecimalLess(max, x) THEN max
    ELSE x

\* Decimal.prototype.clamp throws for min > max.
ClampThrows(min, max) == DecimalLess(max, min)

MathFunctions ==
    {"add", "sub", "mul", "div", "abs", "round", "roundToGold", "floor", "floorToGold",
     "ceil", "ceilToGold", "trunc", "clamp", "mod"}

\* The Decimal that the math function computes from the _rawCopper of its
\* receiver and its resolved arguments, before it stores or wraps it.
MathValue(name, rawCopper, amount, max) ==
    CASE name = "add" -> DecimalAdd(rawCopper, amount)
      [] name = "sub" -> DecimalSub(rawCopper, amount)
      [] name = "mul" -> DecimalMul(rawCopper, amount)
      [] name = "div" -> DecimalDiv(rawCopper, amount)
      [] name = "abs" -> DecimalAbs(rawCopper)
      [] name = "round" -> DecimalRound(rawCopper)
      [] name = "roundToGold" -> ToGold(DecimalRound(DecimalDiv(rawCopper, COPPER_PER_GOLD)))
      [] name = "floor" -> DecimalFloor(rawCopper)
      [] name = "floorToGold" -> ToGold(DecimalFloor(DecimalDiv(rawCopper, COPPER_PER_GOLD)))
      [] name = "ceil" -> DecimalCeil(rawCopper)
      [] name = "ceilToGold" -> ToGold(DecimalCeil(DecimalDiv(rawCopper, COPPER_PER_GOLD)))
      [] name = "trunc" -> DecimalTrunc(rawCopper)
      [] name = "clamp" -> DecimalClamp(rawCopper, amount, max)
      [] name = "mod" -> DecimalMod(rawCopper, amount)

\* A math function throws before it stores anything only in clamp.
MathThrows(name, amount, max) == name = "clamp" /\ ClampThrows(amount, max)

\* `return this` of a call with mutate
This(rawCopper) == [kind |-> "this", rawCopper |-> rawCopper]

\* What the math function returns: with mutate the receiver, which holds the
\* value, and without it a new Gold made of the value.
MathReturn(name, mutate, rawCopper, amount, max) ==
    IF MathThrows(name, amount, max) THEN Thrown("Error")
    ELSE IF mutate THEN This(MathValue(name, rawCopper, amount, max))
    ELSE NewGold(MathValue(name, rawCopper, amount, max))

\* The value stored whatever mutate is.
MathStoredWithoutFlag(name, mutate, rawCopper, amount, max) ==
    IF ~ MathThrows(name, amount, max) THEN MathValue(name, rawCopper, amount, max) ELSE rawCopper

\* The _rawCopper of the receiver after the call.
MathStored(name, mutate, rawCopper, amount, max) ==
    IF mutate /\ ~ MathThrows(name, amount, max) THEN MathValue(name, rawCopper, amount, max)
    ELSE rawCopper

\* The loop of Gold.parse over the default types from the i-th on: the first
\* result that is not undefined ends it.
RECURSIVE ParseDefault(_, _, _, _)
OrParseNext(totalCopper, types, i, expr, dnt) ==
    IF totalCopper.kind # "undefined" THEN totalCopper
    ELSE ParseDefault(types, i + 1, expr, dnt)

ParseDefault(types, i, expr, dnt) ==
    IF i > Len(types) THEN NoValue
    ELSE OrParseNext(ParseCopper(types[i], expr, dnt), types, i, expr, dnt)

\* The end of Gold.parse: a Gold of the copper parsed, or the error.
GoldOrThrow(totalCopper) ==
    CASE totalCopper.kind = "throw" -> totalCopper
      [] totalCopper.kind = "undefined" -> Thrown("InvalidGoldExpressionError")
      [] totalCopper.kind = "decimal" -> NewGold(totalCopper.value)

\* Gold.parse
Parse(expr, type, dnt) ==
    GoldOrThrow(IF type # NoType THEN ParseCopper(type, expr, dnt)
                ELSE ParseDefault(defaultExpressionTypes, 1, expr, dnt))

\* Gold.isGoldExpression
IsGoldExpression(expr, type, dnt) ==
    IF expr \in {Null, Undefined} THEN FALSE
    ELSE IF type # NoType THEN Test(expr, type, dnt)
    ELSE \E i \in 1..Len(defaultExpressionTypes) : Test(expr, defaultExpressionTypes[i], dnt)

(***************************************************************************)
(* gold.ts: conversions of a Gold                                          *)
(***************************************************************************)
\* Gold.isNegative: Decimal.prototype.isNegative is the sign, of a zero too.
isNegative(rawCopper) == rawCopper.s = -1

\* Number.prototype.toString of NaN and of the whole numbers from zero up.
NumberToString(n) == IF DecIsNaN(n) THEN <<"N", "a", "N">> ELSE DecToString(n)

\* The default locale of the host: toLocaleString() is called without one.
\* "en-US" is the locale of the examples of Gold.toString ("3,234,533g").
Locales == {"en-US", "de-DE"}

GroupSeparator(locale) == IF locale = "en-US" THEN "," ELSE "."

\* The digits in groups of three from the right, the separator between them.
RECURSIVE GroupedByThree(_, _)
GroupedByThree(digits, separator) ==
    IF Len(digits) <= 3 THEN digits
    ELSE GroupedByThree(SubSeq(digits, 1, Len(digits) - 3), separator)
            \o <<separator>> \o SubSeq(digits, Len(digits) - 2, Len(digits))

\* Number.prototype.toLocaleString() of NaN and of the whole numbers from
\* zero up, on a host of the given default locale.
toLocaleString(n, locale) ==
    IF DecIsNaN(n) THEN NumberToString(n)
    ELSE GroupedByThree(NumberToString(n), GroupSeparator(locale))

\* String.prototype.padStart(targetLength, padString) for a padString of one
\* character.
padStart(str, targetLength, padString) ==
    [i \in 1..(IF targetLength > Len(str) THEN targetLength - Len(str) ELSE 0) |-> padString] \o str

\* Gold.toString, of a Gold whose amount is finite.
toString(rawCopper, locale) ==
    (IF isNegative(rawCopper) THEN <<"-">> ELSE <<>>)
        \o toLocaleString(gold(rawCopper), locale) \o <<"g", " ">>
        \o padStart(NumberToString(silver(rawCopper)), 2, "0") \o <<"s", " ">>
        \o padStart(NumberToString(copper(rawCopper)), 2, "0") \o <<"c">>

String(str) == [kind |-> "string", value |-> str]

MIN_MYSQL_SIGNED_BIGINT ==
    [s |-> -1, d |-> <<9, 2, 2, 3, 3, 7, 2, 0, 3, 6, 8, 5, 4, 7, 7, 5, 8, 0, 8>>, e |-> 0]
MAX_MYSQL_SIGNED_BIGINT ==
    [s |-> 1, d |-> <<9, 2, 2, 3, 3, 7, 2, 0, 3, 6, 8, 5, 4, 7, 7, 5, 8, 0, 7>>, e |-> 0]
MIN_MYSQL_UNSIGNED_BIGINT == DecZero
MAX_MYSQL_UNSIGNED_BIGINT ==
    [s |-> 1, d |-> <<1, 8, 4, 4, 6, 7, 4, 4, 0, 7, 3, 7, 0, 9, 5, 5, 1, 6, 1, 5>>, e |-> 0]

BigIntValue(x) == [kind |-> "bigint", value |-> x]

\* BigInt(string) of what Decimal.prototype.toString gives for the whole
\* number x: a SyntaxError for NaN, Infinity and the exponential notation
\* of 10^21 and above; the sign of a zero is not written.
BigIntOfString(x) ==
    IF ~ DecIsFinite(x) \/ Len(x.d) + x.e > 21 THEN Thrown("SyntaxError")
    ELSE IF DecIsZero(x) THEN BigIntValue(DecZero)
    ELSE BigIntValue(x)

\* Gold.toBigInt
toBigInt(rawCopper) == BigIntOfString(DecimalTrunc(rawCopper))

\* Gold.toMySQLBigInt
toMySQLBigInt(rawCopper, isUnsigned) ==
    IF DecimalLess(rawCopper,
                   IF isUnsigned THEN MIN_MYSQL_UNSIGNED_BIGINT ELSE MIN_MYSQL_SIGNED_BIGINT)
    THEN Thrown("UnsafeNumberError")
    ELSE IF DecimalGreater(rawCopper,
                           IF isUnsigned THEN MAX_MYSQL_UNSIGNED_BIGINT ELSE MAX_MYSQL_SIGNED_BIGINT)
    THEN Thrown("UnsafeNumberError")
    ELSE toBigInt(rawCopper)

(***************************************************************************)
(* The expressions a caller passes                                         *)
(***************************************************************************)
MaxIntDigits == 4
MaxFracDigits == 2
MaxGroups == 2
MaxPad == 1
MaxLongDigits == 52

DigitChar(v) == CHOOSE c \in DigitChars : DigitVal(c) = v

\* n digits counting up from first: Run(4, 1) is 1234.
Run(n, first) == [i \in 1..n |-> DigitChar((first + i - 1) % 10)]

Nines(n) == [i \in 1..n |-> "9"]

Signs == {<<>>, <<"-">>}

SmallInts == {Run(n, 1) : n \in 1..MaxIntDigits} \cup {<<"0">>, <<"0", "2">>}

Fractions == {<<>>} \cup {<<".">> \o Run(n, 5) : n \in 1..MaxFracDigits}

Notations == {<<>>, <<"g">>, <<"k">>, <<"s">>, <<"c">>}

Suffixes ==
    {<<>>,
     <<" ", "1", "s">>,
     <<" ", "4", "5", "c">>,
     <<" ", "2", "3", "s", " ", "4", "5", "c">>,
     <<" ", "3", "4", "c", " ", "1", "2", "s">>,
     <<" ", "2", "3", "4", "c">>}

Separators == {",", "_"}

\* g groups of three digits, each after a separator of its own choice; the
\* last group may be one digit short.
RECURSIVE GroupTails(_)
GroupTails(g) ==
    IF g = 1 THEN {<<sep>> \o Run(w, 2) : sep \in Separators, w \in {2, 3}}
    ELSE {<<sep>> \o Run(3, 2) \o t : sep \in Separators, t \in GroupTails(g - 1)}

GroupedInts ==
    {first \o t : first \in {Run(n, 1) : n \in 1..MaxIntDigits},
                  t \in UNION {GroupTails(g) : g \in 1..MaxGroups}}

GroupedEndings == {<<>>, <<"c">>, <<"g">>}

PadChars == {<<" ">>, <<"\t">>}

RECURSIVE Pads(_)
Pads(n) == IF n = 0 THEN {<<>>} ELSE {<<>>} \cup {c \o p : c \in PadChars, p \in Pads(n - 1)}

Cores ==
    {<<"1", "2", "c">>,
     <<"5", "s">>,
     <<"1", "2", "s", " ", "3", "4", "c">>,
     <<"1", ".", "5", "k">>,
     <<"1", "2", "m">>,
     <<"3", "b">>,
     <<"1", "2">>,
     <<"1", "g", " ", "2", "s", " ", "3", "c">>}

UpperCase(str) == [i \in 1..Len(str) |-> ToUpperChar(str[i])]

LongLengths == (Precision - 1)..MaxLongDigits

LongNumbers ==
    {int \o frac : int \in {Run(n, 1) : n \in LongLengths} \cup {Nines(n) : n \in LongLengths},
                   frac \in Fractions}
        \cup {int \o <<".">> \o Run(n, 5) : int \in {<<"0">>, <<"1">>}, n \in LongLengths}

Others ==
    {<<>>, <<"c">>, <<"-">>, <<"-", "c">>, <<"1", ".", "c">>, <<".", "5", "c">>,
     <<"1", ".", ".", "5", "c">>, <<"1", ".", "5", ".", "5", "c">>, <<"-", "-", "1", "c">>,
     <<"1", "c", "1", "c">>, <<"1", "c", " ", "2", "c">>, <<"x", "1", "c">>, <<"1", " ", "c">>,
     <<"1", "g", " ", " ", "2", "s", " ", " ", "3", "c">>, <<"1", "g", "\t", "2", "s">>,
     <<"1", "2", "s", "c">>, <<"1", ".", "5", "0", "c">>, <<"0", ".", "0", "c">>,
     <<"0", "0", "c">>, <<"-", "0", "c">>, <<"-", "0", "g">>, <<"-", "0", ".", "4", "c">>,
     <<"1", "G", " ", "2", "s", " ", "3", "c">>, <<"2", "3", "s", "4", "5", "c">>,
     <<"1", "k", "2", "3", "s", "4", "5", "c">>, <<"1", ",", "2", "3", "4", ".", "5", "c">>,
     <<"1", "2", "3", "s", " ", "4", "5", "6", "c">>,
     <<"9", "2", "3", "s", " ", "2", "3", "4", "c">>,
     <<"1", "2", "m", " ", "3", "s", " ", "4", "5", "c">>, <<"-", "3", "b", " ", "2", "3", "s", " ", "4", "5", "c">>,
     <<"1", ",", "2", "3", "4", "g", " ", "2", "3", "s", " ", "4", "5", "c">>,
     <<"1", ".", "5", "m">>, <<"-", "2", ".", "2", "5", "b">>, <<"1", "g", " ", "2", ",", "3", "c">>, <<"1", "g", " ", "2", "S", " ", "3", "C">>}

Expressions ==
    {Null, Undefined}
        \cup {sign \o int \o frac \o notation \o suffix :
                sign \in Signs, int \in SmallInts, frac \in Fractions,
                notation \in Notations, suffix \in Suffixes}
        \cup {sign \o int \o ending : sign \in Signs, int \in GroupedInts, ending \in GroupedEndings}
        \cup {left \o core \o right : left \in Pads(MaxPad), core \in Cores, right \in Pads(MaxPad)}
        \cup {UpperCase(core) : core \in Cores}
        \cup {sign \o number \o <<"c">> : sign \in Signs, number \in LongNumbers}
        \cup Others

(***************************************************************************)
(* A caller holding one expression makes one call after the other.         *)
(***************************************************************************)
Idle == [kind |-> "idle"]

\* No Gold is held, no argument is passed.
NoGold == [kind |-> "none"]
NoArgument == [kind |-> "none"]

Init ==
    /\ expression \in Expressions
    /\ op = "idle"
    /\ expressionType = NoType
    /\ doNotTrim = FALSE
    /\ result = Idle
    /\ receiver = NoGold
    /\ argument = NoArgument
    /\ calls = 0
    /\ lastIndex = NoneMatched

Called(name, type, dnt, value) ==
    /\ op = "idle"
    /\ op' = name
    /\ expressionType' = type
    /\ doNotTrim' = dnt
    /\ result' = value
    /\ UNCHANGED <<expression, receiver, argument, calls, lastIndex>>

\* Gold.parse(expression, expressionType, doNotTrim)
CallParse ==
    \E type \in ExpressionTypes \cup {NoType}, dnt \in BOOLEAN :
        Called("parse", type, dnt, Parse(expression, type, dnt))

\* Gold.isGoldExpression(expression, expressionType, doNotTrim)
CallIsGoldExpression ==
    \E type \in ExpressionTypes \cup {NoType}, dnt \in BOOLEAN :
        Called("isGoldExpression", type, dnt, Boolean(IsGoldExpression(expression, type, dnt)))

\* expressionType.parseCopper(expression, doNotTrim)
CallParseCopper ==
    \E type \in ExpressionTypes, dnt \in BOOLEAN :
        Called("parseCopper", type, dnt, ParseCopper(type, expression, dnt))

\* expressionType.test(expression, doNotTrim)
CallTest ==
    \E type \in ExpressionTypes, dnt \in BOOLEAN :
        Called("test", type, dnt, Boolean(Test(expression, type, dnt)))

\* expressionType.match(expression, doNotTrim)
CallMatch ==
    \E type \in ExpressionTypes, dnt \in BOOLEAN :
        Called("match", type, dnt, Match(expression, type, dnt))

\* The caller takes the result and is ready for the next call.
Return ==
    /\ op # "idle"
    /\ op' = "idle"
    /\ expressionType' = NoType
    /\ doNotTrim' = FALSE
    /\ result' = Idle
    /\ UNCHANGED <<expression, receiver, argument, calls, lastIndex>>

Next ==
    \/ CallParse
    \/ CallIsGoldExpression
    \/ CallParseCopper
    \/ CallTest
    \/ CallMatch
    \/ Return

Spec == Init /\ [][Next]_vars

\* The regular expressions are anchored and unambiguous: a string matches a
\* type in at most one way, which is the match the engine returns.
MatchIsUnique ==
    op = "match" =>
        Cardinality(Regexp(expressionType, Normalise(expression, doNotTrim))) <= 1

(***************************************************************************)
(* A caller constructs a Gold from a value or from segments.               *)
(***************************************************************************)
\* 2^53, the first integer above Number.MAX_SAFE_INTEGER.
AboveSafe == [s |-> 1, d |-> <<9, 0, 0, 7, 1, 9, 9, 2, 5, 4, 7, 4, 0, 9, 9, 2>>, e |-> 0]

NotFinite == {DecNaN, DecInfinity(1), DecInfinity(-1)}

Numbers ==
    {Number(v) : v \in {DecZero, ONE, DecFromString(<<"1", "5", "0">>), DecFromString(<<"-", "5">>),
                        DecFromString(<<"0", ".", "5">>), MAX_SAFE_INTEGER, MIN_SAFE_INTEGER,
                        AboveSafe, DecNeg(AboveSafe)} \cup NotFinite}

BigInts == {BigInt(v) : v \in {ONE, AboveSafe, DecNeg(AboveSafe)}}

Decimals ==
    {DecimalOf(v) : v \in {ONE, DecFromString(<<"2", ".", "5">>), AboveSafe, DecNeg(AboveSafe)}
                           \cup NotFinite}

NotAmounts == {JSString, JSBoolean, JSObject, JSNull, JSUndefined}

Values == Numbers \cup BigInts \cup Decimals \cup NotAmounts

SegmentValues ==
    {Absent, JSUndefined, JSNull, JSString,
     Number(ONE), Number(DecFromString(<<"1", "5", "0">>)), Number(DecNaN), Number(AboveSafe),
     BigInt(AboveSafe), DecimalOf(DecFromString(<<"2", ".", "5">>)), DecimalOf(DecInfinity(-1)),
     DecimalOf(DecNaN)}

SegmentMaps == [gold : SegmentValues, silver : SegmentValues, copper : SegmentValues]

\* Nothing is held and no call is under way.
InitAmount ==
    /\ expression = <<>>
    /\ op = "idle"
    /\ expressionType = NoType
    /\ doNotTrim = FALSE
    /\ result = Idle
    /\ receiver = NoGold
    /\ argument = NoArgument
    /\ calls = 0
    /\ lastIndex = NoneMatched

Passed(name, arg, value) ==
    /\ op = "idle"
    /\ receiver = NoGold
    /\ op' = name
    /\ argument' = arg
    /\ result' = value
    /\ UNCHANGED <<expression, expressionType, doNotTrim, receiver, calls, lastIndex>>

\* new Gold(value)
CallNew == \E value \in Values : Passed("new", [value |-> value], Construct(value))

\* Gold.fromTotal(segments)
CallFromTotal ==
    \E segments \in SegmentMaps : Passed("fromTotal", [segments |-> segments], fromTotal(segments))

\* Gold.getCopperFromTotal(segments)
CallGetCopperFromTotal ==
    \E segments \in SegmentMaps :
        Passed("getCopperFromTotal", [segments |-> segments], getCopperFromTotal(segments))

\* The caller takes the result and drops it.
ReturnAmount ==
    /\ op # "idle"
    /\ op' = "idle"
    /\ argument' = NoArgument
    /\ result' = Idle
    /\ UNCHANGED <<expression, expressionType, doNotTrim, receiver, calls, lastIndex>>

NextConstruct ==
    \/ CallNew
    \/ CallFromTotal
    \/ CallGetCopperFromTotal
    \/ ReturnAmount

ConstructSpec == InitAmount /\ [][NextConstruct]_vars

(***************************************************************************)
(* A caller makes a Gold, by the constructor or by parsing, and calls its  *)
(* math functions one after the other, with mutate or without.             *)
(***************************************************************************)
MaxCalls == 2

StartValues ==
    {Number(DecZero), Number(DecFromString(<<"1", "2", "3", "4", "5">>)),
     DecimalOf(DecFromString(<<"-", "1", "2", "3", "4", "5", ".", "6", "7", "8">>)),
     Number(DecNaN)}

StartExpressions ==
    {<<"1", "g", " ", "2", "s", " ", "3", "c">>, <<"-", "0", ".", "4", "c">>, <<>>}

\* A Gold that a caller passes for an amount.
GoldArgument(rawCopper) == [type |-> "Gold", value |-> rawCopper]

\* The Gold that the call is made on, passed to it for an amount.
TheReceiver == [type |-> "Gold", this |-> TRUE]

\* value instanceof Gold ? value.rawCopper : value, made a Decimal.
resolveGoldMathValue(value) == value.value

Operands ==
    {Number(DecZero), Number(DecFromString(<<"3">>)), DecimalOf(DecFromString(<<"-", "2", ".", "5">>)),
     Number(DecInfinity(1)), GoldArgument(DecFromString(<<"1", "5", "0">>)), TheReceiver}

\* The Gold objects that a caller adds to or compares with the one it holds.
GoldOperands == {GoldArgument(DecFromString(<<"-", "2", ".", "5">>)), TheReceiver}

ClampBounds ==
    {<<Number(DecZero), GoldArgument(DecFromString(<<"1", "5", "0">>))>>,
     <<Number(HUNDRED), Number(DecZero)>>, <<Number(DecNaN), Number(DecZero)>>}

\* The arguments a math function takes: none, an amount, or min and max.
\* The receiver is passed to add and sub only: the division of the model is
\* by amounts of four digits at most.
ArgumentsOf(name) ==
    IF name \in {"add", "sub"} THEN {<<amount, JSUndefined>> : amount \in Operands}
    ELSE IF name \in {"mul", "div", "mod"}
         THEN {<<amount, JSUndefined>> : amount \in Operands \ {TheReceiver}}
    ELSE IF name = "clamp" THEN ClampBounds
    ELSE {<<JSUndefined, JSUndefined>>}

\* new Gold(value), nothing being held yet
CallNewGold ==
    \E value \in StartValues : Passed("new", [value |-> value], Construct(value))

\* Gold.parse(expression), nothing being held yet
CallParseGold ==
    \E expr \in StartExpressions :
        /\ op = "idle"
        /\ receiver = NoGold
        /\ op' = "parse"
        /\ expression' = expr
        /\ result' = Parse(expr, NoType, FALSE)
        /\ UNCHANGED <<expressionType, doNotTrim, receiver, argument, calls, lastIndex>>

\* The Decimal that an argument resolves to in a call on the Gold that holds
\* rawCopper; nothing is read of an argument that was not passed.
Resolved(value, rawCopper) ==
    IF value = JSUndefined THEN DecNaN
    ELSE IF value = TheReceiver THEN rawCopper
    ELSE resolveGoldMathValue(value)

\* An argument as the call leaves it, stored being the _rawCopper of the
\* receiver after the call: the functions assign to the receiver alone.
Left(value, stored) == IF value = TheReceiver THEN GoldArgument(stored) ELSE value

\* The arguments of the call under way: as passed, and as it leaves them.
Arguments(amount, max, mutate, stored) ==
    [amount |-> amount, max |-> max, mutate |-> mutate,
     left |-> <<Left(amount, stored), Left(max, stored)>>]

\* Gold.sum(...amount)
sum(amounts) == NewGold(DecimalSum(amounts))

Comparisons ==
    {"isEqualTo", "isLessThan", "isLessThanOrEqualTo", "isGreaterThan", "isGreaterThanOrEqualTo"}

\* this._rawCopper.equals(amount) .. this._rawCopper.greaterThanOrEqualTo(amount)
Compare(name, rawCopper, amount) ==
    CASE name = "isEqualTo" -> DecimalEquals(rawCopper, amount)
      [] name = "isLessThan" -> DecimalLess(rawCopper, amount)
      [] name = "isLessThanOrEqualTo" -> DecimalLess(rawCopper, amount) \/ DecimalEquals(rawCopper, amount)
      [] name = "isGreaterThan" -> DecimalGreater(rawCopper, amount)
      [] name = "isGreaterThanOrEqualTo" ->
            DecimalGreater(rawCopper, amount) \/ DecimalEquals(rawCopper, amount)

\* receiver.name(amount, mutate) or receiver.name(min, max, mutate)
CallMath ==
    \E name \in MathFunctions, mutate \in BOOLEAN :
        \E args \in ArgumentsOf(name) :
            /\ op = "idle"
            /\ receiver # NoGold
            /\ calls < MaxCalls
            /\ op' = name
            /\ result' = MathReturn(name, mutate, receiver,
                                    Resolved(args[1], receiver), Resolved(args[2], receiver))
            /\ receiver' = MathStored(name, mutate, receiver,
                                      Resolved(args[1], receiver), Resolved(args[2], receiver))
            /\ argument' = Arguments(args[1], args[2], mutate, receiver')
            /\ calls' = calls + 1
            /\ UNCHANGED <<expression, expressionType, doNotTrim, lastIndex>>

\* Gold.sum(receiver, amount), of two Gold objects
CallSum ==
    \E amount \in GoldOperands :
        /\ op = "idle"
        /\ receiver # NoGold
        /\ calls < MaxCalls
        /\ op' = "sum"
        /\ result' = sum(<<receiver, Resolved(amount, receiver)>>)
        /\ argument' = Arguments(amount, JSUndefined, FALSE, receiver)
        /\ calls' = calls + 1
        /\ UNCHANGED <<expression, expressionType, doNotTrim, receiver, lastIndex>>

\* receiver.isEqualTo(amount) .. receiver.isGreaterThanOrEqualTo(amount)
CallCompare ==
    \E name \in Comparisons, amount \in GoldOperands :
        /\ op = "idle"
        /\ receiver # NoGold
        /\ op' = name
        /\ result' = Boolean(Compare(name, receiver, Resolved(amount, receiver)))
        /\ argument' = Arguments(amount, JSUndefined, FALSE, receiver)
        /\ UNCHANGED <<expression, expressionType, doNotTrim, receiver, calls, lastIndex>>

\* The caller takes the result: it goes on with the Gold it held or with the
\* new Gold it was given.
TakeGold ==
    /\ op # "idle"
    /\ op' = "idle"
    /\ argument' = NoArgument
    /\ result' = Idle
    /\ receiver' \in {receiver} \cup (IF result.kind = "gold" THEN {result.rawCopper} ELSE {})
    /\ UNCHANGED <<expression, expressionType, doNotTrim, calls, lastIndex>>

NextMath ==
    \/ CallNewGold
    \/ CallParseGold
    \/ CallMath
    \/ CallSum
    \/ CallCompare
    \/ TakeGold

MathSpec == InitAmount /\ [][NextMath]_vars

(***************************************************************************)
(* A caller makes a Gold, by the constructor or by parsing, converts it to *)
(* a string or to a MySQL BIGINT, and parses the string again.             *)
(***************************************************************************)
\* Expressions whose gold is a whole number that the number type holds
\* exactly (below 2^53): toNumber and toLocaleString are modelled for these.
ShortExpressions ==
    Cores \cup {UpperCase(core) : core \in Cores} \cup Others
        \cup {sign \o int \o ending : sign \in Signs, int \in GroupedInts, ending \in GroupedEndings}

TwoTo63 == [s |-> 1, d |-> <<9, 2, 2, 3, 3, 7, 2, 0, 3, 6, 8, 5, 4, 7, 7, 5, 8, 0, 8>>, e |-> 0]
TwoTo64 == [s |-> 1, d |-> <<1, 8, 4, 4, 6, 7, 4, 4, 0, 7, 3, 7, 0, 9, 5, 5, 1, 6, 1, 6>>, e |-> 0]
Half == [s |-> 1, d |-> <<5>>, e |-> -1]

ConvertedValues ==
    {DecimalOf(v) : v \in {DecZero, Half, DecNeg(Half), DecNeg(ONE),
                            DecFromString(<<"-", "0", ".", "0", "0", "4">>),
                            DecFromString(<<"1", "2", "3", "4", "5", "6", "7", "8", ".", "9">>),
                            DecFromString(<<"-", "1", "2", "3", "4", "5", ".", "6", "7", "8">>),
                            DecAdd(TwoTo63, DecNeg(ONE)), DecAdd(TwoTo63, DecNeg(Half)), TwoTo63,
                            DecNeg(TwoTo63), DecAdd(DecNeg(TwoTo63), DecNeg(Half)),
                            DecAdd(DecNeg(TwoTo63), DecNeg(ONE)),
                            DecAdd(TwoTo64, DecNeg(ONE)), DecAdd(TwoTo64, DecNeg(Half)), TwoTo64}}

\* new Gold(value), nothing being held yet
CallNewAmount ==
    \E value \in ConvertedValues : Passed("new", [value |-> value], Construct(value))

\* Gold.parse(expression), nothing being held yet
CallParseText ==
    \E expr \in ShortExpressions :
        /\ op = "idle"
        /\ receiver = NoGold
        /\ calls = 0
        /\ op' = "parse"
        /\ expression' = expr
        /\ result' = Parse(expr, NoType, FALSE)
        /\ UNCHANGED <<expressionType, doNotTrim, receiver, argument, calls, lastIndex>>

\* receiver.toString(), on a host of some default locale
CallToString ==
    \E locale \in Locales :
        /\ op = "idle"
        /\ receiver # NoGold
        /\ op' = "toString"
        /\ argument' = [locale |-> locale]
        /\ result' = String(toString(receiver, locale))
        /\ UNCHANGED <<expression, expressionType, doNotTrim, receiver, calls, lastIndex>>

\* Gold.parse(string), of the string that receiver.toString() returned
CallParseString ==
    /\ op = "toString"
    /\ calls < MaxCalls
    /\ op' = "parse"
    /\ expression' = result.value
    /\ result' = Parse(result.value, NoType, FALSE)
    /\ calls' = calls + 1
    /\ UNCHANGED <<expressionType, doNotTrim, receiver, argument, lastIndex>>

\* receiver.toMySQLBigInt(isUnsigned)
CallToMySQLBigInt ==
    \E isUnsigned \in BOOLEAN :
        /\ op = "idle"
        /\ receiver # NoGold
        /\ op' = "toMySQLBigInt"
        /\ argument' = [isUnsigned |-> isUnsigned]
        /\ result' = toMySQLBigInt(receiver, isUnsigned)
        /\ UNCHANGED <<expression, expressionType, doNotTrim, receiver, calls, lastIndex>>

NextConvert ==
    \/ CallNewAmount
    \/ CallParseText
    \/ CallToString
    \/ CallParseString
    \/ CallToMySQLBigInt
    \/ TakeGold

ConvertSpec == InitAmount /\ [][NextConvert]_vars

(***************************************************************************)
(* Callers share the expression types: each call is made by some caller on *)
(* some type with an expression of its own, one call after the other.      *)
(***************************************************************************)
SharedExpressions ==
    {Null, Undefined, <<>>, <<"1", "c">>, <<" ", "1", "2", "c", " ">>, <<"-", "5", "C">>,
     <<"1", ",", "2", "3", "4", ".", "5", "c">>, <<"1", "2", "s", " ", "3", "4", "c">>,
     <<"5", "s">>, <<"1", ".", "5", "k">>, <<"1", "g", " ", "2", "s", " ", "3", "c">>,
     <<"x", "1", "c">>}

Shared(name, expr, type, dnt, returned) ==
    /\ op = "idle"
    /\ op' = name
    /\ expression' = expr
    /\ expressionType' = type
    /\ doNotTrim' = dnt
    /\ result' = returned.value
    /\ lastIndex' = [lastIndex EXCEPT ![type] = returned.lastIndex]
    /\ UNCHANGED <<receiver, argument, calls>>

\* expressionType.test(expression, doNotTrim)
ShareTest ==
    \E expr \in SharedExpressions, type \in ExpressionTypes \cup CreatedTypes, dnt \in BOOLEAN :
        Shared("test", expr, type, dnt, TestAt(expr, type, dnt, lastIndex[type]))

\* expressionType.match(expression, doNotTrim)
ShareMatch ==
    \E expr \in SharedExpressions, type \in ExpressionTypes \cup CreatedTypes, dnt \in BOOLEAN :
        Shared("match", expr, type, dnt, MatchAt(expr, type, dnt, lastIndex[type]))

\* expressionType.parseCopper(expression, doNotTrim)
ShareParseCopper ==
    \E expr \in SharedExpressions, type \in ExpressionTypes \cup CreatedTypes, dnt \in BOOLEAN :
        Shared("parseCopper", expr, type, dnt, ParseCopperAt(type, expr, dnt, lastIndex[type]))

NextShared ==
    \/ ShareTest
    \/ ShareMatch
    \/ ShareParseCopper
    \/ Return

SharedSpec == InitAmount /\ [][NextShared]_vars

(***************************************************************************)
(* What an expression says, read off its text                              *)
(***************************************************************************)
IsDigit(c) == c \in DigitChars

DigitValues(str) == LET ds == SelectSeq(str, IsDigit) IN [i \in 1..Len(ds) |-> DigitVal(ds[i])]

\* The number written as [-]INT[.FRAC], separators allowed in INT.
WrittenNumber(str) ==
    LET dots == {i \in 1..Len(str) : str[i] = "."}
        fractionDigits == IF dots = {} THEN 0 ELSE Len(str) - (CHOOSE i \in dots : TRUE)
    IN MkDec(IF str # <<>> /\ Head(str) = "-" THEN -1 ELSE 1, DigitValues(str), -fractionDigits)

\* x * 10^k, exactly.
Shift(x, k) == IF DecIsZero(x) THEN x ELSE [x EXCEPT !.e = x.e + k]

\* Equal as numbers: the sign of a zero does not count.
SameAmount(x, y) == (DecIsZero(x) /\ DecIsZero(y)) \/ x = y

NotationZeros(n) ==
    CASE n = <<"g">> -> 0 [] n = <<"k">> -> 3 [] n = <<"m">> -> 6 [] n = <<"b">> -> 9

\* The text of the expression without its last character, the unit letter.
WithoutUnit(str) == SubSeq(str, 1, Len(str) - 1)

(***************************************************************************)
(* C1                                                                      *)
(***************************************************************************)
ParsedAsExplicitCopper ==
    /\ op = "parse"
    /\ expressionType \in {NoType, "EXPLICIT_COPPER"}
    /\ expression # Null
    /\ ExplicitCopperRegexp(Trim(expression)) # {}

\* C1 as stated: whatever the number of digits, the Gold that Gold.parse
\* returns for an input ExplicitCopper matches stores exactly the number
\* written in the text.
C1_ExactForAnyDigits ==
    ParsedAsExplicitCopper =>
        /\ result.kind = "gold"
        /\ SameAmount(result.rawCopper, WrittenNumber(WithoutUnit(Trim(expression))))

\* C1 amended: the Gold that Gold.parse returns for an input ExplicitCopper
\* matches stores exactly the number written in the text when that number has
\* at most 50 significant digits, the precision gold.ts configures.
C1_ExactWithinPrecision ==
    ParsedAsExplicitCopper /\ Len(WrittenNumber(WithoutUnit(Trim(expression))).d) <= Precision =>
        /\ result.kind = "gold"
        /\ SameAmount(result.rawCopper, WrittenNumber(WithoutUnit(Trim(expression))))

C1_Witness ==
    /\ ParsedAsExplicitCopper
    /\ Len(WrittenNumber(WithoutUnit(Trim(expression))).d) = Precision
    /\ \E i \in 1..Len(expression) : expression[i] = "."
    /\ result.kind = "gold"
    /\ Len(result.rawCopper.d) = Precision

(***************************************************************************)
(* C2                                                                      *)
(***************************************************************************)
\* C2: for an unsigned input that SilverAndCopper or SilverOrCopper matches,
\* the same input with a leading '-' is matched by the same type and parses
\* to the negation of the unsigned amount, the copper term included.
C2_SignNegatesEveryTerm ==
    /\ op = "parseCopper"
    /\ expressionType \in {"SILVER_AND_COPPER", "SILVER_OR_COPPER"}
    /\ result.kind = "decimal"
    /\ Head(Trim(expression)) # "-"
    => LET negated == ParseCopper(expressionType, <<"-">> \o Trim(expression), doNotTrim)
       IN /\ negated.kind = "decimal"
          /\ SameAmount(negated.value, DecNeg(result.value))

(***************************************************************************)
(* C3                                                                      *)
(***************************************************************************)
\* The groups of an input of the form [-]INT.FRAC N under the type called.
FractionalNotated(type, str) ==
    {g \in Regexp(type, str) :
        /\ g.gold # Undefined
        /\ g.fractionalGold # Undefined
        /\ g.goldNotation \in {<<n>> : n \in GOLD_NOTATIONS}
        /\ g.and_silver = Undefined /\ g.or_silver = Undefined /\ g.or_copper = Undefined}

\* C3: under GenericGold and ExplicitGold an input INT.FRAC followed by a
\* notation letter N parses to (INT.FRAC) * multiplier(N) * 10000 copper: the
\* fraction is scaled by the notation like the integer part.
C3_FractionScaledByNotation ==
    /\ op = "parseCopper"
    /\ expressionType \in {"GENERIC_GOLD", "EXPLICIT_GOLD", "EXPLICIT_GOLD_I"}
    /\ expression # Null
    => \A g \in FractionalNotated(expressionType, Trim(expression)) :
          /\ result.kind = "decimal"
          /\ SameAmount(result.value,
                        Shift(WrittenNumber(WithoutUnit(Trim(expression))),
                              4 + NotationZeros(g.goldNotation)))

(***************************************************************************)
(* C4                                                                      *)
(***************************************************************************)
\* The groups of an input of the form [-]G N S's' C'c' under GenericGold.
GoldSilverCopper(str) ==
    {g \in GenericGoldRegexp(str) :
        /\ g.fractionalGold = Undefined
        /\ g.goldNotation # Undefined
        /\ g.and_silver # Undefined
        /\ g.and_copper # Undefined}

\* Two decimal places of a captured segment of one or two digits.
TwoDigits(seg) == IF Len(seg) = 1 THEN <<0, DigitVal(seg[1])>> ELSE <<DigitVal(seg[1]), DigitVal(seg[2])>>

\* sign * (G * multiplier(N) * 10000 + S * 100 + C), written out in decimal:
\* the digits of G, the zeros of the notation, then silver and copper.
ExpectedGoldSilverCopper(g) ==
    MkDec(IF g.neg # Undefined THEN -1 ELSE 1,
          DigitValues(g.gold) \o Zeros(NotationZeros(g.goldNotation))
              \o TwoDigits(g.and_silver) \o TwoDigits(g.and_copper),
          0)

\* C4: GenericGold parses [-]G N S's' C'c' to sign * (G * multiplier(N) *
\* 10000 + S * 100 + C) copper, the sign applying to all three terms;
\* '-1g 23s 45c' is -(1*10000 + 23*100 + 45) = -12345.
C4_GenericGoldSilverCopper ==
    /\ op = "parseCopper"
    /\ expressionType = "GENERIC_GOLD"
    /\ expression # Null
    => \A g \in GoldSilverCopper(Trim(expression)) :
          /\ result.kind = "decimal"
          /\ SameAmount(result.value, ExpectedGoldSilverCopper(g))

C4_Witness ==
    /\ op = "parseCopper"
    /\ expressionType = "GENERIC_GOLD"
    /\ expression = <<"-", "1", "g", " ", "2", "3", "s", " ", "4", "5", "c">>
    /\ result = Copper([s |-> -1, d |-> <<1, 2, 3, 4, 5>>, e |-> 0])
(***************************************************************************)
(* C5                                                                      *)
(***************************************************************************)
Max(S) == CHOOSE x \in S : \A y \in S : y <= x

\* The segments from position p to the end of the string, each some digits
\* and a unit letter s or c after any number of spaces; text that is no such
\* segment gives a segment of unit "?".
RECURSIVE Segments(_, _)
Segments(str, p) ==
    LET q == Max(SpaceEnds(str, p))
        ends == DigitRunEnds(str, q, 1, Len(str))
    IN IF ends = {} \/ ~ CharIs(str, Max(ends), {"s", "c"}, FALSE)
       THEN <<[digits |-> 0, unit |-> "?"]>>
       ELSE <<[digits |-> Max(ends) - q, unit |-> str[Max(ends)]]>>
                \o (IF AtEnd(str, Max(ends) + 1) THEN <<>> ELSE Segments(str, Max(ends) + 1))

\* The ways to read the string as a major-unit part [-]INT[.FRAC][N] followed
\* by one or more silver or copper segments.
SuffixReadings(str) ==
    UNION {UNION {UNION {
        {[fractional |-> p3 # p2, notated |-> p4 # p3, segments |-> Segments(str, p4)]
            : p4 \in {q \in {p3} \cup (IF CharIs(str, p3, GOLD_NOTATIONS, FALSE) THEN {p3 + 1} ELSE {})
                        : /\ q <= Len(str)
                          /\ \A i \in 1..Len(Segments(str, q)) : Segments(str, q)[i].unit # "?"}}
        : p3 \in FractionEnds(str, p2)} : p2 \in IntEnds(str, p1)} : p1 \in NegEnds(str)}

\* Integral, notated, and the suffix silver-then-copper or a single segment,
\* of one or two digits each.
SuffixAdmitted(r) ==
    /\ ~ r.fractional
    /\ r.notated
    /\ [i \in 1..Len(r.segments) |-> r.segments[i].unit] \in {<<"s">>, <<"c">>, <<"s", "c">>}
    /\ \A i \in 1..Len(r.segments) : r.segments[i].digits <= 2

\* C5: GenericGold matches an input carrying a silver and/or copper suffix
\* exactly when the major-unit part is integral and ends in a notation letter
\* and the suffix is silver-then-copper or one silver or copper segment of
\* one or two digits.
C5_SuffixNeedsIntegralNotation ==
    /\ op = "test"
    /\ expressionType = "GENERIC_GOLD"
    /\ expression # Null
    /\ SuffixReadings(Normalise(expression, doNotTrim)) # {}
    => result.value = (\E r \in SuffixReadings(Normalise(expression, doNotTrim)) : SuffixAdmitted(r))

C5_Witness ==
    /\ op = "test"
    /\ expressionType = "GENERIC_GOLD"
    /\ expression # Null
    /\ \E r \in SuffixReadings(Normalise(expression, doNotTrim)) : r.fractional /\ r.notated
    /\ result.value = FALSE

C5_WitnessAdmitted ==
    /\ op = "test"
    /\ expressionType = "GENERIC_GOLD"
    /\ expression # Null
    /\ \E r \in SuffixReadings(Normalise(expression, doNotTrim)) : Len(r.segments) = 2
    /\ result.value = TRUE

(***************************************************************************)
(* C6                                                                      *)
(***************************************************************************)
PriorityOrder == <<"EXPLICIT_COPPER", "SILVER_AND_COPPER", "SILVER_OR_COPPER", "GENERIC_GOLD">>

\* C6: Gold.parse without a pinned type returns the amount of the first type
\* in the order ExplicitCopper, SilverAndCopper, SilverOrCopper, GenericGold
\* whose pattern matches the input, whatever the later types and the two
\* explicit gold types would make of it.
C6_FirstMatchWins ==
    /\ op = "parse"
    /\ expressionType = NoType
    /\ expression # Null
    => \A i \in 1..Len(PriorityOrder) :
          /\ Test(expression, PriorityOrder[i], doNotTrim)
          /\ \A j \in 1..(i - 1) : ~ Test(expression, PriorityOrder[j], doNotTrim)
          => /\ result.kind = "gold"
             /\ ParseCopper(PriorityOrder[i], expression, doNotTrim).kind = "decimal"
             /\ result = NewGold(ParseCopper(PriorityOrder[i], expression, doNotTrim).value)

\* An input two of the types match and parse to different amounts.
C6_Witness ==
    /\ op = "parse"
    /\ expressionType = NoType
    /\ expression # Null
    /\ Test(expression, "EXPLICIT_COPPER", doNotTrim)
    /\ Test(expression, "SILVER_OR_COPPER", doNotTrim)
    /\ result.kind = "gold"
    /\ result # NewGold(ParseCopper("SILVER_OR_COPPER", expression, doNotTrim).value)

(***************************************************************************)
(* C7                                                                      *)
(***************************************************************************)
\* C7: for a non-null input, any pinned type or none, and either doNotTrim,
\* Gold.isGoldExpression is true exactly when Gold.parse with the same
\* arguments returns a Gold.
C7_TestAgreesWithParse ==
    op = "parse" /\ expression # Null =>
        (result.kind = "gold") = IsGoldExpression(expression, expressionType, doNotTrim)

(***************************************************************************)
(* C8                                                                      *)
(***************************************************************************)
\* C8: white space at the ends is trimmed exactly when doNotTrim is false:
\* then parsing and testing behave as for the trimmed input; with doNotTrim
\* true an input with white space around it is not matched, parseCopper
\* yields no value and Gold.parse fails.
C8_TrimExactlyWhenNotSuppressed ==
    expression # Null =>
        /\ ~ doNotTrim =>
            /\ op = "parse" => result = Parse(Trim(expression), expressionType, FALSE)
            /\ op = "parseCopper" => result = ParseCopper(expressionType, Trim(expression), FALSE)
            /\ op = "test" => result = Boolean(Test(Trim(expression), expressionType, FALSE))
            /\ op = "isGoldExpression" =>
                   result = Boolean(IsGoldExpression(Trim(expression), expressionType, FALSE))
        /\ doNotTrim /\ Trim(expression) # expression =>
            /\ op = "parse" => result.kind = "throw"
            /\ op = "parseCopper" => result.kind = "undefined"
            /\ op = "test" => result = Boolean(FALSE)
            /\ op = "isGoldExpression" => result = Boolean(FALSE)

(***************************************************************************)
(* C9                                                                      *)
(***************************************************************************)
SixTypes ==
    {"EXPLICIT_COPPER", "SILVER_AND_COPPER", "SILVER_OR_COPPER",
     "EXPLICIT_GOLD", "EXPLICIT_ONLY_GOLD", "GENERIC_GOLD"}

\* C9: for each expression type, writing the unit letters of an input in the
\* other case changes neither whether it matches nor the amount it parses to.
C9_CaseOfUnitLettersIsIrrelevant ==
    /\ op = "parseCopper"
    /\ expressionType \in SixTypes \cup {"EXPLICIT_GOLD_I"}
    /\ expression # Null
    => result = ParseCopper(expressionType, UpperCase(expression), doNotTrim)

(***************************************************************************)
(* C10                                                                     *)
(***************************************************************************)
IsSeparator(c) == c \in Separators

\* The integer part: the digits and separators after the sign.
IntegerPart(str) ==
    LET from == IF str # <<>> /\ Head(str) = "-" THEN 2 ELSE 1
        stops == {i \in from..Len(str) : str[i] \notin DigitChars \cup Separators}
    IN SubSeq(str, from, IF stops = {} THEN Len(str) ELSE (CHOOSE i \in stops : \A j \in stops : i <= j) - 1)

\* A group of one to three digits, then groups of exactly three digits, all
\* joined by the same separator.
WellGrouped(int) ==
    LET at == {i \in 1..Len(int) : int[i] \in Separators}
    IN /\ \A i, j \in at : int[i] = int[j]
       /\ \E i \in at : i \in 2..4 /\ \A j \in at : i <= j
       /\ \A i \in at :
            /\ i + 3 <= Len(int)
            /\ \A k \in (i + 1)..(i + 3) : k \notin at
            /\ i + 4 \in at \/ i + 3 = Len(int)

\* C10: an input with separators matches a type only if its integer part is
\* a group of one to three digits followed by groups of exactly three digits,
\* all joined by the same separator, and then it matches and parses as the
\* same input without the separators does.
C10_SeparatorsGroupThrees ==
    /\ expression # Null
    /\ \E i \in 1..Len(expression) : expression[i] \in Separators
    => LET str == Normalise(expression, doNotTrim)
       IN /\ op = "test" =>
               result.value =
                   (/\ WellGrouped(IntegerPart(str))
                    /\ Len(SelectSeq(str, IsSeparator)) = Len(SelectSeq(IntegerPart(str), IsSeparator))
                    /\ Test(StripSeparators(str), expressionType, TRUE))
          /\ op = "parseCopper" /\ result.kind = "decimal" =>
               result = ParseCopper(expressionType, StripSeparators(expression), doNotTrim)

C10_Witness ==
    /\ op = "parseCopper"
    /\ expressionType = "EXPLICIT_COPPER"
    /\ expression = <<"1", "2", "_", "2", "3", "4", "_", "2", "3", "4", "c">>
    /\ result = Copper([s |-> 1, d |-> <<1, 2, 2, 3, 4, 2, 3, 4>>, e |-> 0])

C10_WitnessRejected ==
    /\ op = "test"
    /\ expression = <<"1", ",", "2", "3", "4", "_", "2", "3", "4", "c">>
    /\ result = Boolean(FALSE)

(***************************************************************************)
(* C11                                                                     *)
(***************************************************************************)
IsUnitLetter(c) == ToLowerChar(c) \in {"s", "c"}

\* The text before the first "." of a number, and the text after it.
BeforeDot(number) ==
    LET dots == {i \in 1..Len(number) : number[i] = "."}
    IN IF dots = {} THEN number
       ELSE SubSeq(number, 1, (CHOOSE i \in dots : \A j \in dots : i <= j) - 1)

AfterDot(number) == SubSeq(number, Len(BeforeDot(number)) + 2, Len(number))

AllDigits(str) == str # <<>> /\ \A i \in 1..Len(str) : str[i] \in DigitChars

\* An optional "-", an integer (plain or well grouped), a fractional part
\* where one is allowed, and one notation letter, which is the last character.
NotatedShape(str, fractional) ==
    LET from == IF str # <<>> /\ Head(str) = "-" THEN 2 ELSE 1
        number == SubSeq(str, from, Len(str) - 1)
    IN /\ Len(str) >= from
       /\ ToLowerChar(str[Len(str)]) \in GOLD_NOTATIONS
       /\ \/ AllDigits(BeforeDot(number))
          \/ /\ WellGrouped(BeforeDot(number))
             /\ AllDigits(StripSeparators(BeforeDot(number)))
       /\ \/ BeforeDot(number) = number
          \/ fractional /\ AllDigits(AfterDot(number))

C11_WitnessOnlyGold ==
    /\ op = "test"
    /\ expressionType = "EXPLICIT_ONLY_GOLD"
    /\ expression = <<"1", ".", "5", "g">>
    /\ result = Boolean(FALSE)

(***************************************************************************)
(* C12                                                                     *)
(***************************************************************************)
IsSegmentLetter(c) == ToLowerChar(c) \in GOLD_NOTATIONS \cup {"s", "c"}

\* More than one segment: more than one notation or unit letter.
MultiSegment(str) == Len(SelectSeq(str, IsSegmentLetter)) >= 2

\* A silver or copper segment of more than two digits: three digits right
\* before an s or a c.
LongSilverOrCopper(str) ==
    \E i \in 4..Len(str) :
        /\ IsUnitLetter(str[i])
        /\ \A k \in (i - 3)..(i - 1) : str[k] \in DigitChars

\* C12: an expression of several segments with a silver or copper segment of
\* more than two digits is no gold expression, with no type named and with
\* each of the four default types named.
C12_LongSegmentIsNoGoldExpression ==
    /\ op = "isGoldExpression"
    /\ expression \notin {Null, Undefined}
    /\ expressionType \in {NoType} \cup {defaultExpressionTypes[i] : i \in 1..Len(defaultExpressionTypes)}
    /\ MultiSegment(expression)
    /\ LongSilverOrCopper(expression)
    => result = Boolean(FALSE)

C12_Witness ==
    /\ op = "isGoldExpression"
    /\ expressionType = NoType
    /\ expression = <<"9", "2", "3", "s", " ", "2", "3", "4", "c">>
    /\ result = Boolean(FALSE)

(***************************************************************************)
(* C13                                                                     *)
(***************************************************************************)
\* C13: every input that ExplicitGold or ExplicitOnlyGold matches is matched
\* by GenericGold too, and GenericGold parses it to the same copper amount.
C13_GenericGoldSubsumesExplicit ==
    /\ op = "parseCopper"
    /\ expressionType \in {"EXPLICIT_GOLD", "EXPLICIT_GOLD_I", "EXPLICIT_ONLY_GOLD"}
    /\ Test(expression, expressionType, doNotTrim)
    => /\ Test(expression, "GENERIC_GOLD", doNotTrim)
       /\ ParseCopper("GENERIC_GOLD", expression, doNotTrim) = result

(***************************************************************************)
(* C14                                                                     *)
(***************************************************************************)
\* C14: for null and for undefined, Gold.parse (with a type named or not) and
\* the parseCopper and match of every type raise InvalidGoldExpressionError
\* and return nothing.
C14_NullOrUndefinedIsInvalid ==
    /\ op \in {"parse", "parseCopper", "match"}
    /\ expression \in {Null, Undefined}
    => result = Thrown("InvalidGoldExpressionError")

C14_Witness ==
    /\ op = "parse"
    /\ expressionType = NoType
    /\ expression = Undefined
    /\ result = Thrown("InvalidGoldExpressionError")

C14_WitnessParseCopper ==
    /\ op = "parseCopper"
    /\ expressionType = "SILVER_OR_COPPER"
    /\ doNotTrim
    /\ expression = Null
    /\ result.kind = "throw"

(***************************************************************************)
(* C15                                                                     *)
(***************************************************************************)
\* No type that the call configures matches the trimmed input.
Unmatched(expr, type) ==
    IF type # NoType THEN ~ Test(expr, type, FALSE)
    ELSE \A i \in 1..Len(defaultExpressionTypes) : ~ Test(expr, defaultExpressionTypes[i], FALSE)

\* C15: for an input other than null and undefined that no configured type
\* matches, Gold.parse raises MalformedGoldExpressionError, which is not the
\* error raised for null and undefined, and the parseCopper of a single type
\* returns undefined and raises nothing.
C15_UnmatchedIsMalformed ==
    /\ expression \notin {Null, Undefined}
    /\ Unmatched(expression, expressionType)
    => /\ op = "parse" =>
            /\ result = Thrown("MalformedGoldExpressionError")
            /\ result # Parse(Null, expressionType, doNotTrim)
       /\ op = "parseCopper" => result = NoValue

(***************************************************************************)
(* What a caller supplies to a constructor                                 *)
(***************************************************************************)
ConstructCalls == {"new", "fromTotal", "getCopperFromTotal"}

\* The values supplied by the call under way: the argument of new Gold, the
\* values of the keys that segments has.
Supplied ==
    IF op = "new" THEN {argument.value}
    ELSE {argument.segments[SEGMENT_NAMES[i]] : i \in 1..Len(SEGMENT_NAMES)} \ {Absent}

IsAmountType(v) == v.type \in {"number", "bigint", "Decimal"}

OutsideSafeRange(x) == DecLess(x, MIN_SAFE_INTEGER) \/ DecLess(MAX_SAFE_INTEGER, x)

\* A value that the documentation of getCopperFromTotal admits.
FineAmount(v) ==
    /\ IsAmountType(v)
    /\ DecIsFinite(v.value)
    /\ v.type = "number" => ~ OutsideSafeRange(v.value)

IsNaNValue(v) == v.type \in {"number", "Decimal"} /\ DecIsNaN(v.value)

IsInfiniteValue(v) ==
    v.type \in {"number", "Decimal"} /\ ~ DecIsNaN(v.value) /\ ~ DecIsFinite(v.value)

\* One supplied value is as Bad says and every other one is fine.
OneBad(Bad(_)) == \E v \in Supplied : Bad(v) /\ \A w \in Supplied \ {v} : FineAmount(w)

(***************************************************************************)
(* C16                                                                     *)
(***************************************************************************)
\* C16: new Gold, Gold.fromTotal and Gold.getCopperFromTotal raise
\* ValueNaNError for a value that is NaN, a number or a Decimal, and
\* InfiniteValueError for an infinite value, a number or a Decimal.
C16_NaNAndInfiniteRejected ==
    op \in ConstructCalls =>
        /\ OneBad(IsNaNValue) => result = Thrown("ValueNaNError")
        /\ OneBad(IsInfiniteValue) => result = Thrown("InfiniteValueError")

(***************************************************************************)
(* C17                                                                     *)
(***************************************************************************)
IsNoAmount(v) == v.type \in {"string", "boolean", "object", "null"}

\* C17: new Gold and Gold.fromTotal raise TypeError for a supplied value that
\* is a string, a boolean, an object or null, and make no Gold of it.
C17_OtherTypesRejected ==
    op \in {"new", "fromTotal"} /\ OneBad(IsNoAmount) => result = Thrown("TypeError")

(***************************************************************************)
(* C18                                                                     *)
(***************************************************************************)
IsUnsafeNumber(v) == v.type = "number" /\ DecIsFinite(v.value) /\ OutsideSafeRange(v.value)

IsLargeExact(v) ==
    v.type \in {"bigint", "Decimal"} /\ DecIsFinite(v.value) /\ OutsideSafeRange(v.value)

\* x * 10^n for a finite x that is not zero.
TimesPowerOfTen(x, n) == [x EXCEPT !.e = x.e + n]

\* The names of the keys that hold the value v.
KeysOf(v) == {i \in 1..Len(SEGMENT_NAMES) : argument.segments[SEGMENT_NAMES[i]] = v}

\* C18: a number below Number.MIN_SAFE_INTEGER or above
\* Number.MAX_SAFE_INTEGER is rejected with UnsafeNumberError; a bigint or a
\* Decimal of that size is taken, and the amount is exactly its value: that
\* value for new Gold, and for segments with no other key that value times
\* the copper of its segment.
C18_UnsafeNumbersOnly ==
    op \in ConstructCalls =>
        /\ OneBad(IsUnsafeNumber) => result = Thrown("UnsafeNumberError")
        /\ \A v \in Supplied :
              IsLargeExact(v) /\ Supplied = {v} =>
                 /\ op = "new" => result = GoldInstance(v.value)
                 /\ op # "new" /\ KeysOf(v) = {1} =>
                        result.kind \in {"gold", "decimal"}
                            /\ result[IF op = "fromTotal" THEN "rawCopper" ELSE "value"]
                                 = TimesPowerOfTen(v.value, 4)
                 /\ op # "new" /\ KeysOf(v) = {3} =>
                        result.kind \in {"gold", "decimal"}
                            /\ result[IF op = "fromTotal" THEN "rawCopper" ELSE "value"] = v.value

C18_Witness ==
    /\ op = "fromTotal"
    /\ argument.segments = [gold |-> Absent, silver |-> Number(AboveSafe), copper |-> Absent]
    /\ result = Thrown("UnsafeNumberError")

C18_WitnessBigInt ==
    /\ op = "fromTotal"
    /\ argument.segments = [gold |-> BigInt(AboveSafe), silver |-> Absent, copper |-> Absent]
    /\ result = GoldInstance([s |-> 1, d |-> <<9, 0, 0, 7, 1, 9, 9, 2, 5, 4, 7, 4, 0, 9, 9, 2>>, e |-> 4])

(***************************************************************************)
(* C19                                                                     *)
(***************************************************************************)
\* What a segment adds to the total: nothing if it is not supplied.
Contribution(v, digits) ==
    IF v \in {Absent, JSUndefined} \/ DecIsZero(v.value) THEN DecZero
    ELSE TimesPowerOfTen(v.value, digits)

SegmentsTotal(segments) ==
    DecAdd(DecAdd(Contribution(segments.gold, 4), Contribution(segments.silver, 2)),
           Contribution(segments.copper, 0))

\* C19: Gold.fromTotal gives gold x 10000 + silver x 100 + copper, a segment
\* whose key is absent or whose value is undefined adding nothing, silver and
\* copper being of any size; with all three absent it gives a zero Gold.
C19_FromTotalSumsSegments ==
    /\ op = "fromTotal"
    /\ \A i \in 1..Len(SEGMENT_NAMES) :
          \/ argument.segments[SEGMENT_NAMES[i]] \in {Absent, JSUndefined}
          \/ FineAmount(argument.segments[SEGMENT_NAMES[i]])
    => result = GoldInstance(SegmentsTotal(argument.segments))

\* The same with every segment either supplied or its key absent.
C19_AbsentKeysAddNothing ==
    /\ op = "fromTotal"
    /\ \A i \in 1..Len(SEGMENT_NAMES) :
          \/ argument.segments[SEGMENT_NAMES[i]] = Absent
          \/ FineAmount(argument.segments[SEGMENT_NAMES[i]])
    => result = GoldInstance(SegmentsTotal(argument.segments))

(***************************************************************************)
(* C20                                                                     *)
(***************************************************************************)
\* The amounts of the Gold objects in the caller's hands: the one it holds
\* and the one the call under way returned.
GoldsHeld ==
    (IF receiver = NoGold THEN {} ELSE {receiver})
        \cup (IF result.kind \in {"gold", "this"} THEN {result.rawCopper} ELSE {})

IsWholeNumber(x) == DecIsFinite(x) /\ (x.d = <<>> \/ x.e >= 0)

IsNotBelowZero(x) == ~ DecIsNaN(x) /\ ~ DecIsBelowZero(x)

InSegmentRange(x) == IsWholeNumber(x) /\ IsNotBelowZero(x) /\ DecLess(x, HUNDRED)

\* C20: of every Gold made by new Gold or Gold.parse and by any sequence of
\* arithmetic calls, mutating or not, the getters silver and copper return
\* whole numbers from 0 to 99 and the getter gold a whole number that is not
\* below zero.
C20_SegmentsInRange ==
    \A rawCopper \in GoldsHeld :
        /\ IsWholeNumber(gold(rawCopper)) /\ IsNotBelowZero(gold(rawCopper))
        /\ InSegmentRange(silver(rawCopper))
        /\ InSegmentRange(copper(rawCopper))

\* The same of every Gold whose amount is a finite one.
C20_FiniteSegmentsInRange ==
    \A rawCopper \in GoldsHeld :
        DecIsFinite(rawCopper) =>
            /\ IsWholeNumber(gold(rawCopper)) /\ IsNotBelowZero(gold(rawCopper))
            /\ InSegmentRange(silver(rawCopper))
            /\ InSegmentRange(copper(rawCopper))

(***************************************************************************)
(* C21                                                                     *)
(***************************************************************************)
\* The amount of the Gold passed as value to a call on the Gold that holds
\* rawCopper.
AmountOf(value, rawCopper) == IF value = TheReceiver THEN rawCopper ELSE value.value

\* The arguments of the call that the step makes, in their order.
PassedArguments == <<argument'.amount, argument'.max>>

\* What mutate decides in a step that calls a math function: without it the
\* call returns a new Gold, unless it throws, and the amount of the receiver
\* stays; with it the call returns the receiver.
MutateDecides ==
    /\ ~ argument'.mutate => result'.kind \in {"gold", "throw"} /\ receiver' = receiver
    /\ argument'.mutate =>
          /\ result'.kind \in {"this", "throw"}
          /\ result'.kind = "this" => result'.rawCopper = receiver'

C21_WitnessNewGold ==
    /\ op = "sub"
    /\ ~ argument.mutate
    /\ argument.amount = TheReceiver
    /\ result = GoldInstance(DecZero)
    /\ receiver = DecFromString(<<"1", "2", "3", "4", "5">>)

(***************************************************************************)
(* C24                                                                     *)
(***************************************************************************)
\* x.floorToGold().add(x.mod(Gold.COPPER_PER_GOLD)) for the Gold x that holds
\* rawCopper, wholeGold being the amount of x.floorToGold().
FloorPlusRemainder(wholeGold, rawCopper) ==
    MathReturn("add", FALSE, wholeGold,
               MathValue("mod", rawCopper, COPPER_PER_GOLD, DecNaN), DecNaN)

\* C24: for every Gold x, negative ones included, x.floorToGold() plus
\* x.mod(COPPER_PER_GOLD) equals x.
C24_FloorPlusRemainderIsWhole ==
    op = "floorToGold" /\ ~ argument.mutate /\ result.kind = "gold" =>
        /\ FloorPlusRemainder(result.rawCopper, receiver).kind = "gold"
        /\ DecimalEquals(FloorPlusRemainder(result.rawCopper, receiver).rawCopper, receiver)

\* The same of every Gold that is not below zero.
C24_HoldsFromZeroUp ==
    op = "floorToGold" /\ ~ argument.mutate /\ result.kind = "gold" /\ ~ DecIsBelowZero(receiver) =>
        /\ FloorPlusRemainder(result.rawCopper, receiver).kind = "gold"
        /\ DecimalEquals(FloorPlusRemainder(result.rawCopper, receiver).rawCopper, receiver)

(***************************************************************************)
(* C25                                                                     *)
(***************************************************************************)
\* C25: Gold.sum(a, b) has the amount of a.add(b), or throws as it does, for
\* any two Gold a and b, and neither call changes a or b.
C25_SumIsAdd ==
    [][op' = "sum" =>
          /\ result' = MathReturn("add", FALSE, receiver,
                                  AmountOf(argument'.amount, receiver), DecNaN)
          /\ receiver' = receiver
          /\ argument'.left[1].value = AmountOf(argument'.amount, receiver)
          /\ MathStored("add", FALSE, receiver, AmountOf(argument'.amount, receiver), DecNaN)
                = receiver]_vars

C25_Witness ==
    /\ op = "sum"
    /\ receiver = DecFromString(<<"-", "1", "2", "3", "4", "5", ".", "6", "7", "8">>)
    /\ argument.amount = GoldArgument(DecFromString(<<"-", "2", ".", "5">>))
    /\ result = GoldInstance(DecFromString(<<"-", "1", "2", "3", "4", "8", ".", "1", "7", "8">>))

(***************************************************************************)
(* C26                                                                     *)
(***************************************************************************)
\* x is a number below the number y.
NumericallyBelow(x, y) ==
    /\ ~ DecIsNaN(x) /\ ~ DecIsNaN(y)
    /\ IF DecIsFinite(x) /\ DecIsFinite(y) THEN DecIsBelowZero(ExactSum(x, DecNeg(y)))
       ELSE IF DecIsFinite(x) THEN y.s = 1
       ELSE IF DecIsFinite(y) THEN x.s = -1
       ELSE x.s = -1 /\ y.s = 1

\* C26: for any two Gold a and b that can be reached, a.isLessThan(b) holds
\* exactly if the amount of a is numerically below that of b, and exactly one
\* of a.isLessThan(b), a.isEqualTo(b), a.isGreaterThan(b) holds.
C26_ComparisonsOrderAmounts ==
    op \in Comparisons =>
        /\ op = "isLessThan" =>
              result.value = NumericallyBelow(receiver, AmountOf(argument.amount, receiver))
        /\ Cardinality({name \in {"isLessThan", "isEqualTo", "isGreaterThan"} :
                           Compare(name, receiver, AmountOf(argument.amount, receiver))}) = 1

\* The same of two Gold whose amounts are numbers.
C26_HoldsOfNumbers ==
    op \in Comparisons /\ ~ DecIsNaN(receiver) =>
        /\ op = "isLessThan" =>
              result.value = NumericallyBelow(receiver, AmountOf(argument.amount, receiver))
        /\ Cardinality({name \in {"isLessThan", "isEqualTo", "isGreaterThan"} :
                           Compare(name, receiver, AmountOf(argument.amount, receiver))}) = 1

(***************************************************************************)
(* C27                                                                     *)
(***************************************************************************)
\* C27: after any sequence of constructions, parses and math calls, with
\* mutate or without, the amount stored in every Gold is a finite number.
C27_StoredAmountIsFinite == \A rawCopper \in GoldsHeld : DecIsFinite(rawCopper)

(***************************************************************************)
(* C29                                                                     *)
(***************************************************************************)
\* What the call that the step makes returns if made without mutate.
WithoutMutate ==
    MathReturn(op', FALSE, receiver,
               Resolved(argument'.amount, receiver), Resolved(argument'.max, receiver))

\* C29: a math call with mutate = true leaves in the receiver the amount that
\* the same call with mutate = false returns, and throws, leaving the amount
\* of the receiver, wherever that call throws.
C29_MutateStoresWhatNewGoldHolds ==
    [][op' \in MathFunctions /\ argument'.mutate =>
          IF WithoutMutate.kind = "throw" THEN result'.kind = "throw" /\ receiver' = receiver
          ELSE result'.kind = "this" /\ DecimalEquals(receiver', WithoutMutate.rawCopper)]_vars

\* The same of the calls that do not throw without mutate.
C29_HoldsWhereNewGoldIsMade ==
    [][op' \in MathFunctions /\ argument'.mutate /\ WithoutMutate.kind # "throw" =>
          result'.kind = "this" /\ DecimalEquals(receiver', WithoutMutate.rawCopper)]_vars

(***************************************************************************)
(* C22: toMySQLBigInt and the amount truncated                             *)
(***************************************************************************)
InDomain(x, isUnsigned) ==
    /\ ~ DecimalLess(x, IF isUnsigned THEN MIN_MYSQL_UNSIGNED_BIGINT ELSE MIN_MYSQL_SIGNED_BIGINT)
    /\ ~ DecimalGreater(x, IF isUnsigned THEN MAX_MYSQL_UNSIGNED_BIGINT ELSE MAX_MYSQL_SIGNED_BIGINT)

\* C22: toMySQLBigInt raises the unsafe-number error exactly when the amount
\* truncated toward zero lies outside the chosen 64-bit domain, and returns
\* the truncated amount otherwise.
C22_ThrowsByTruncatedAmount ==
    op = "toMySQLBigInt" =>
        IF InDomain(DecimalTrunc(receiver), argument.isUnsigned)
        THEN /\ result.kind = "bigint"
             /\ DecimalEquals(result.value, DecimalTrunc(receiver))
        ELSE result = Thrown("UnsafeNumberError")

\* What the code does: the amount itself is compared with the bounds, and
\* truncated after that.
C22_ThrowsByAmount ==
    op = "toMySQLBigInt" =>
        IF InDomain(receiver, argument.isUnsigned)
        THEN /\ result.kind = "bigint"
             /\ DecimalEquals(result.value, DecimalTrunc(receiver))
        ELSE result = Thrown("UnsafeNumberError")

\* -0.5 in the unsigned domain
C22_HalfBelowZero ==
    /\ op = "toMySQLBigInt"
    /\ argument.isUnsigned
    /\ receiver = DecNeg(Half)
    /\ result = Thrown("UnsafeNumberError")

(***************************************************************************)
(* C23, C30: a Gold made a string and the string parsed again              *)
(***************************************************************************)
\* Gold.parse has been called on what receiver.toString() returned.
ParsedAgain == op = "parse" /\ calls > 0

\* C23: the string that toString makes of a Gold is accepted by Gold.parse,
\* and the Gold parsed from it, made a string and parsed once more, has the
\* same amount.
C23_ParseAfterFormatIsIdempotent ==
    ParsedAgain =>
        /\ result.kind = "gold"
        /\ LET again == Parse(toString(result.rawCopper, argument.locale), NoType, FALSE)
           IN  again.kind = "gold" /\ DecimalEquals(again.rawCopper, result.rawCopper)

\* The same on a host whose default locale is that of the examples.
C23_HoldsInTheLocaleOfTheExamples ==
    ParsedAgain /\ argument.locale = "en-US" =>
        /\ result.kind = "gold"
        /\ LET again == Parse(toString(result.rawCopper, "en-US"), NoType, FALSE)
           IN  again.kind = "gold" /\ DecimalEquals(again.rawCopper, result.rawCopper)

\* C30: the string that toString makes of a Gold is a fixed point: parsed
\* and made a string again it is the same string.
C30_CanonicalStringIsFixedPoint ==
    ParsedAgain /\ argument.locale = "en-US" =>
        /\ result.kind = "gold"
        /\ toString(result.rawCopper, "en-US") = expression

\* The same of the amounts that are not between minus one copper and zero.
C30_HoldsFromOneCopper ==
    ParsedAgain /\ argument.locale = "en-US"
        /\ (DecimalLess(receiver, DecZero) => ~ DecimalLess(DecNeg(ONE), receiver)) =>
        /\ result.kind = "gold"
        /\ toString(result.rawCopper, "en-US") = expression

(***************************************************************************)
(* C28: expression types shared between callers                            *)
(***************************************************************************)
\* What the call returns on a type on which no call was made before.
FirstResult ==
    CASE op = "test" -> TestAt(expression, expressionType, doNotTrim, 0).value
      [] op = "match" -> MatchAt(expression, expressionType, doNotTrim, 0).value
      [] op = "parseCopper" -> ParseCopperAt(expressionType, expression, doNotTrim, 0).value

\* C28: whatever calls were made on an expression type before, test, match
\* and parseCopper return what they return on the type when no call was made
\* on it.
C28_ResultsDoNotDependOnEarlierCalls ==
    op \in {"test", "match", "parseCopper"} => result = FirstResult

\* The same of the expression types that the library defines, whose regexps
\* are never written to.
C28_HoldsOfTheTypesOfTheLibrary ==
    /\ \A type \in ExpressionTypes : lastIndex[type] = 0
    /\ op \in {"test", "match", "parseCopper"} /\ expressionType \in ExpressionTypes =>
          result = FirstResult

\* A second test of the same expression on the created type.
C28_SecondTest ==
    /\ op = "test"
    /\ expressionType \in CreatedTypes
    /\ lastIndex[expressionType] = 0
    /\ result = Boolean(FALSE)
    /\ FirstResult = Boolean(TRUE)
====
